---- MODULE Spec2Model ----
(***************************************************************************)
(* Model of the autonomous-decision and error-recovery subsystem of the    *)
(* AI SDLC wizard (src/autonomous_features.py) and of the places of the    *)
(* Streamlit application (src/streamlit_app.py) that drive it.             *)
(*                                                                         *)
(* Scores are Python floats in the source.  They are modelled as exact     *)
(* rationals [n |-> numerator, d |-> denominator] in lowest terms, so a    *)
(* comparison such as overall_score >= threshold is decided exactly.       *)
(* Text artifacts are modelled by the features the scorers extract from    *)
(* them (substring and regular-expression matches, word counts).           *)
(***************************************************************************)
EXTENDS Integers, Sequences, FiniteSets, TLC

\* ------------------------------------------------------------------ bounds
\* Longest list of user stories handed to a scorer.
MaxStories == 2
\* Most analyze_* calls made on one engine in the session specification.
\* Most handle_error calls in the retry specification.
MaxRetryCalls == 4
\* Most handle_error calls in the recovery specification.
MaxHandled == 3
\* Most error_details dicts the callers create.
MaxDicts == 2
\* Most events the graph streams to the session.
MaxEvents == 2
\* Most stream failures in a session.
MaxFailures == 2
\* Most decisions, autonomous and human, made in a run.
MaxDecisions == 2
\* Most analyze_* calls a session makes on engines of one level.
MaxCalls == 2
\* Latest reading of the clock in a session.
MaxTime == 1
\* Most analyses in a session of the optimizer.
MaxRuns == 6
\* Most failures reported with dicts of any content.
MaxReports == 1

VARIABLES
    autonomy_level,     \* AutonomousDecisionEngine.autonomy_level
    decision_history,   \* AutonomousDecisionEngine.decision_history
    ret,                \* what the last analyze_* call returned (<<>> before any call)
    last_call,          \* observer: stage of the last analyze_* call, whether scoring raised
    calls,              \* observer: analyze_* calls made on the engine since construction
    answers,            \* observer: the session's calls on engines of this level, with what they returned
    now,                \* datetime.now()
    error_history,      \* ErrorRecoveryEngine.error_history
    heap,               \* the error_details dicts the callers hold, by object identity
    trace,              \* observer: what each handle_error call was given and returned
    tried,              \* observer: the models whose api_error retry budget ran out
    active_node,        \* st.session_state.active_node
    events,             \* st.session_state.events, each event by its node
    script,             \* how the last button handler of the page ended
    stream_failures,    \* observer: graph.stream calls that raised
    security_review_status, \* state["security_review_status"]
    security_review_feedback, \* state["security_review_feedback"]: its prefix and its text
    qa_review_status,   \* state["qa_review_status"]
    autonomous_decisions, \* state["autonomous_decisions"]
    auto_save_enabled,  \* st.session_state.auto_save_enabled
    saved,              \* the auto_saves file of the session (<<>> before any save)
    saved_at,           \* observer: the active node when the file was written
    decisions_made,     \* observer: the decisions of the engine and of the humans, in order
    review,             \* observer: how the last security review went (<<>> before any)
    performance_history, \* WorkflowOptimizer.performance_history
    analysis,           \* what the last analyze_workflow_performance call returned (<<>> before any)
    recorded,           \* observer: every performance record ever appended, in call order
    invoked             \* observer: the safe_llm_invoke call made (<<>> before it), with what it did

engineVars == <<autonomy_level, decision_history, ret, last_call, calls, answers>>
recoveryVars == <<error_history, heap, trace, tried>>
appVars == <<active_node, events, script, stream_failures>>
gateVars == <<security_review_status, security_review_feedback, qa_review_status, autonomous_decisions, decisions_made, review>>
saveVars == <<auto_save_enabled, saved, saved_at>>
optimizerVars == <<performance_history, analysis, recorded>>
vars == <<engineVars, recoveryVars, appVars, gateVars, saveVars, optimizerVars, invoked, now>>

\* ------------------------------------------------------- float arithmetic
RECURSIVE GCD(_, _)
GCD(a, b) == IF b = 0 THEN a ELSE GCD(b, a % b)

Abs(x) == IF x < 0 THEN -x ELSE x

\* The float n/d.
Q(n, d) ==
    LET g == GCD(Abs(n), Abs(d))
        s == IF d < 0 THEN -1 ELSE 1
    IN  [n |-> s * (n \div g), d |-> s * (d \div g)]

\* A float literal with two decimals: Pct(85) is 0.85.
Pct(h) == Q(h, 100)

QAdd(a, b) == Q(a.n * b.d + b.n * a.d, a.d * b.d)
QSub(a, b) == Q(a.n * b.d - b.n * a.d, a.d * b.d)
QMulInt(a, k) == Q(a.n * k, a.d)
QDivInt(a, k) == Q(a.n, a.d * k)
QLe(a, b) == a.n * b.d <= b.n * a.d
QLt(a, b) == a.n * b.d < b.n * a.d
QGe(a, b) == QLe(b, a)
QMin(a, b) == IF QLe(a, b) THEN a ELSE b
QMax(a, b) == IF QLe(a, b) THEN b ELSE a

\* ------------------------------------------------------------ data types
AutonomyLevel == {"manual", "semi_auto", "full_auto", "expert_auto"}

QualityMetrics(completeness, consistency, security, best_practices, overall) ==
    [completeness_score   |-> completeness,
     consistency_score    |-> consistency,
     security_score       |-> security,
     best_practices_score |-> best_practices,
     overall_score        |-> overall]

meets_threshold_strict(metrics, threshold) == QLt(threshold, metrics.overall_score)

\* QualityMetrics.meets_threshold
meets_threshold(metrics, threshold) == QGe(metrics.overall_score, threshold)

\* Thresholds that are not ordered by autonomy: expert_auto asks for more
\* than full_auto.
quality_thresholds_unordered(level) ==
    CASE level = "manual"      -> Pct(100)
      [] level = "semi_auto"   -> Pct(85)
      [] level = "full_auto"   -> Pct(75)
      [] level = "expert_auto" -> Pct(80)

\* self.quality_thresholds[level]
quality_thresholds(level) ==
    CASE level = "manual"      -> Pct(100)
      [] level = "semi_auto"   -> Pct(85)
      [] level = "full_auto"   -> Pct(75)
      [] level = "expert_auto" -> Pct(70)

\* A decision that would lean on the engine's record: once a decision is in
\* decision_history, deny.
DecideRemembering(level, metrics) ==
    IF decision_history # <<>> THEN "Denied"
    ELSE IF meets_threshold(metrics, quality_thresholds(level)) THEN "Approve" ELSE "Denied"

\* "Approve" if metrics.meets_threshold(self.quality_thresholds[self.autonomy_level]) else "Denied"
Decide(level, metrics) ==
    IF meets_threshold(metrics, quality_thresholds(level)) THEN "Approve" ELSE "Denied"

\* --------------------------------------------------------- user stories
\* Words of four or more letters that are not stop words (\b\w{4,}\b).
Keywords == {"k1", "k2"}

\* A story string by what the scorers read of it: the clauses it contains,
\* its number of words, whether it holds a testability indicator, its
\* keywords.  kind "none" is a list element that is not a string.
WellFormedStories ==
    [kind: {"str"}, as_a: {TRUE}, i_want: {TRUE}, so_that: {TRUE},
     words: {7, 12, 61}, testable: BOOLEAN, kw: {{}, {"k1"}}]
ClauseStories ==
    [kind: {"str"}, as_a: BOOLEAN, i_want: BOOLEAN, so_that: BOOLEAN,
     words: {12}, testable: {TRUE}, kw: {{"k1"}}]
NotAString ==
    [kind |-> "none", as_a |-> FALSE, i_want |-> FALSE, so_that |-> FALSE,
     words |-> 0, testable |-> FALSE, kw |-> {}]
Story == WellFormedStories \cup ClauseStories \cup {NotAString}

StoryLists == UNION {[1..n -> Story] : n \in 0..MaxStories}

\* The requirements text: empty (or None), a string with keywords, or a
\* truthy value that is not a string.
Requirements ==
    [kind: {"str"}, kw: SUBSET Keywords] \cup {[kind |-> "empty", kw |-> {}], [kind |-> "bad", kw |-> {}]}

\* Whether the scoring of (stories, requirements) raises: story.lower() on
\* an element that is no string, requirements.lower() on a value that is none.
StoriesRaise(stories, requirements) ==
    \/ \E i \in 1..Len(stories) : stories[i].kind # "str"
    \/ Len(stories) > 0 /\ requirements.kind = "bad"

\* A credit that would give 0.3 to a story with exactly one clause only.
StoryCreditOneClause(story) ==
    IF story.as_a /\ story.i_want /\ story.so_that THEN Pct(100)
    ELSE IF story.as_a /\ story.i_want THEN Pct(70)
    ELSE IF Cardinality({c \in {"as_a", "i_want", "so_that"} : story[c]}) = 1 THEN Pct(30)
    ELSE Pct(0)

\* The credit of one story in _check_story_completeness.
StoryCredit(story) ==
    IF story.as_a /\ story.i_want /\ story.so_that THEN Pct(100)
    ELSE IF story.as_a /\ story.i_want THEN Pct(70)
    ELSE IF story.as_a \/ story.i_want \/ story.so_that THEN Pct(30)
    ELSE Pct(0)

RECURSIVE SumCredit(_)
SumCredit(stories) ==
    IF stories = <<>> THEN Pct(0)
    ELSE QAdd(StoryCredit(Head(stories)), SumCredit(Tail(stories)))

\* A completeness that would hold an empty list complete.
_check_story_completeness_vacuous(stories) ==
    IF Len(stories) = 0 THEN Pct(100)
    ELSE QDivInt(SumCredit(stories), Len(stories))

_check_story_completeness(stories) ==
    IF Len(stories) = 0 THEN Pct(0)
    ELSE QDivInt(SumCredit(stories), Len(stories))

_check_requirements_alignment(stories, requirements) ==
    IF requirements.kind = "empty" \/ Len(stories) = 0 THEN Pct(0)
    ELSE LET req_keywords == requirements.kw
             story_keywords == UNION {stories[i].kw : i \in 1..Len(stories)}
         IN  IF req_keywords = {} THEN Pct(50)
             ELSE QMin(Pct(100),
                       Q(Cardinality(req_keywords \cap story_keywords),
                         Cardinality(req_keywords)))

_check_story_best_practices(stories) ==
    IF Len(stories) = 0 THEN Pct(0)
    ELSE LET n == Len(stories)
             badLength == Cardinality({i \in 1..n : stories[i].words < 8 \/ stories[i].words > 60})
             unique_stories == Cardinality({stories[i] : i \in 1..n})
             testable_count == Cardinality({i \in 1..n : stories[i].testable})
             s1 == QSub(Pct(100), QMulInt(Pct(10), badLength))
             s2 == IF unique_stories < n THEN QSub(s1, Pct(20)) ELSE s1
             \* testable_count < len(stories) * 0.3
             s3 == IF 10 * testable_count < 3 * n THEN QSub(s2, Pct(15)) ELSE s2
         IN  QMax(Pct(0), s3)

_generate_story_feedback(metrics) ==
    LET f1 == IF QLt(metrics.completeness_score, Pct(70)) THEN <<"missing standard format">> ELSE <<>>
        f2 == IF QLt(metrics.consistency_score, Pct(70)) THEN <<"could better align with requirements">> ELSE <<>>
        f3 == IF QLt(metrics.best_practices_score, Pct(70)) THEN <<"more concise, unique, testable">> ELSE <<>>
        f4 == IF QGe(metrics.overall_score, Pct(90)) THEN <<"Excellent user stories">>
              ELSE IF QGe(metrics.overall_score, Pct(75)) THEN <<"Good user stories">> ELSE <<>>
        feedback == f1 \o f2 \o f3 \o f4
    IN  IF feedback = <<>> THEN <<"User stories meet quality standards">> ELSE feedback

\* What one analyze_* call yields: whether scoring raised, and the returned
\* (decision, metrics, feedback).
Outcome(raised, decision, metrics, feedback) ==
    [raised |-> raised, decision |-> decision, metrics |-> metrics, feedback |-> feedback]

FailedApproves(metrics, feedback) == Outcome(TRUE, "Approve", metrics, feedback)

\* What an except block returns: "Denied", the metrics and the message it names.
Failed(metrics, feedback) == Outcome(TRUE, "Denied", metrics, feedback)

UserStoriesOutcome(level, stories, requirements) ==
    IF StoriesRaise(stories, requirements)
    THEN Failed(QualityMetrics(Pct(50), Pct(50), Pct(100), Pct(50), Pct(50)),
                 <<"Analysis failed">>)
    ELSE LET completeness == _check_story_completeness(stories)
             consistency == _check_requirements_alignment(stories, requirements)
             best_practices == _check_story_best_practices(stories)
             overall == QDivInt(QAdd(QAdd(completeness, consistency), best_practices), 3)
             metrics == QualityMetrics(completeness, consistency, Pct(100), best_practices, overall)
         IN  Outcome(FALSE, Decide(level, metrics), metrics, _generate_story_feedback(metrics))

\* ------------------------------------------------------ design document
\* The technical section by what the scorers read: its number of items, the
\* number of technical aspects (of 7) and of security keywords (of 10) its
\* text mentions.  Five of the security keywords belong to no aspect, so
\* more than five of them imply an aspect.
TechnicalSections ==
    {t \in [items: {0, 1, 3, 5}, aspects: {0, 4, 5, 7}, security_keywords: {0, 4, 5, 10}] :
        /\ t.items = 0 => (t.aspects = 0 /\ t.security_keywords = 0)
        /\ t.security_keywords > 5 => t.aspects >= 1}

\* A design document: a dict with its functional items and its technical
\* section, or a value that is no dict (kind "none").
DesignDocs ==
    [kind: {"dict"}, functional: 0..5, technical: TechnicalSections]
    \cup {[kind |-> "none", functional |-> 0,
           technical |-> [items |-> 0, aspects |-> 0, security_keywords |-> 0]]}

\* A story as _check_design_story_alignment reads it against the design
\* text: its number of key parts and how many of them the text mentions.
DesignStory ==
    {s \in [kind: {"str"}, key_parts: 1..3, matches: 0..2] :
        \/ s.key_parts = 1 /\ s.matches = 0
        \/ s.key_parts = 2 /\ s.matches = 1
        \/ s.key_parts = 3 /\ s.matches \in {1, 2}}
    \cup {[kind |-> "none", key_parts |-> 0, matches |-> 0]}

DesignStoryLists == UNION {[1..n -> DesignStory] : n \in 0..MaxStories}

DesignRaise(design_doc, stories) ==
    \/ design_doc.kind # "dict"
    \/ \E i \in 1..Len(stories) : stories[i].kind # "str"

\* One of the two halves of _check_design_completeness.
ItemsScore(count) ==
    IF count >= 5 THEN Pct(50)
    ELSE IF count >= 3 THEN Pct(35)
    ELSE QMulInt(Pct(10), count)

_check_design_completeness(functional, technical) ==
    QMin(Pct(100), QAdd(ItemsScore(functional), ItemsScore(technical.items)))

_check_design_story_alignment(stories) ==
    IF Len(stories) = 0 THEN Pct(100)
    ELSE LET covered_stories ==
                 Cardinality({i \in 1..Len(stories) :
                     \/ stories[i].matches >= 2
                     \/ (stories[i].key_parts <= 2 /\ stories[i].matches >= 1)})
         IN  Q(covered_stories, Len(stories))

_check_design_best_practices(technical) ==
    IF technical.items = 0 THEN Pct(30)
    ELSE QMin(Pct(100), QMulInt(Pct(14), technical.aspects))

_check_design_security(technical) ==
    IF technical.items = 0 THEN Pct(40)
    ELSE QMin(Pct(100), QAdd(Pct(40), QMulInt(Pct(6), technical.security_keywords)))

_generate_design_feedback(metrics) ==
    LET f1 == IF QLt(metrics.completeness_score, Pct(70)) THEN <<"needs more detail">> ELSE <<>>
        f2 == IF QLt(metrics.consistency_score, Pct(70)) THEN <<"address all user stories">> ELSE <<>>
        f3 == IF QLt(metrics.security_score, Pct(70)) THEN <<"add security considerations">> ELSE <<>>
        f4 == IF QLt(metrics.best_practices_score, Pct(70)) THEN <<"include technical best practices">> ELSE <<>>
        f5 == IF QGe(metrics.overall_score, Pct(90)) THEN <<"Comprehensive design document">>
              ELSE IF QGe(metrics.overall_score, Pct(75)) THEN <<"Good design document">> ELSE <<>>
        feedback == f1 \o f2 \o f3 \o f4 \o f5
    IN  IF feedback = <<>> THEN <<"Design document meets technical standards">> ELSE feedback

\* The neutral metrics of the except blocks whose stage scores security.
NeutralMetrics == QualityMetrics(Pct(50), Pct(50), Pct(50), Pct(50), Pct(50))

DesignOutcome(level, design_doc, stories) ==
    IF DesignRaise(design_doc, stories)
    THEN Failed(NeutralMetrics, <<"Analysis failed">>)
    ELSE LET completeness == _check_design_completeness(design_doc.functional, design_doc.technical)
             consistency == _check_design_story_alignment(stories)
             best_practices == _check_design_best_practices(design_doc.technical)
             security == _check_design_security(design_doc.technical)
             overall == QDivInt(QAdd(QAdd(QAdd(completeness, consistency), best_practices), security), 4)
             metrics == QualityMetrics(completeness, consistency, security, best_practices, overall)
         IN  Outcome(FALSE, Decide(level, metrics), metrics, _generate_design_feedback(metrics))

\* ------------------------------------------------------------------ code
\* language.lower() of analyze_code; "none" is a language that is no string.
Languages == {"python", "javascript", "typescript", "java", "other", "none"}

\* A source text by what the scorers read of it:
\*   structure      how many of the language's three structural checks it passes
\*   error          how many of the two error-handling checks
\*   doc            how many of the two documentation checks
\*   password       a hardcoded password = "..." assignment
\*   secret         a hardcoded secret = "..." assignment
\*   key_token      how many of the key = "..." and token = "..." assignments
\*   dangerous      how many other dangerous patterns of the language
\*   prepared       PreparedStatement is used
\*   crypto         MessageDigest or SecureRandom is used
\*   lines          non-empty lines
\*   comment_lines  lines holding a comment
\* kind "none" is a code value that is no string.
CodeDefaults ==
    [kind |-> "str", structure |-> 0, error |-> 0, doc |-> 0, password |-> FALSE,
     secret |-> FALSE, key_token |-> 0, dangerous |-> 0, prepared |-> FALSE,
     crypto |-> FALSE, lines |-> 0, comment_lines |-> 0]

NoCode == [CodeDefaults EXCEPT !.kind = "none"]

PythonCode ==
    [kind: {"str"}, structure: 0..3, error: 0..2, doc: 0..2, password: BOOLEAN,
     secret: BOOLEAN, key_token: {0}, dangerous: {0, 1, 4}, prepared: {FALSE},
     crypto: {FALSE}, lines: {0}, comment_lines: {0}]

JavascriptCode ==
    [kind: {"str"}, structure: 0..3, error: 0..2, doc: 0..2, password: BOOLEAN,
     secret: {FALSE}, key_token: {0}, dangerous: {0, 1, 3, 4, 6}, prepared: {FALSE},
     crypto: {FALSE}, lines: {0}, comment_lines: {0}]

JavaCode ==
    [kind: {"str"}, structure: 0..3, error: 0..2, doc: 0..2, password: BOOLEAN,
     secret: {FALSE}, key_token: {0}, dangerous: {0}, prepared: BOOLEAN,
     crypto: BOOLEAN, lines: {0}, comment_lines: {0}]

GenericCode ==
    {c \in [kind: {"str"}, structure: {0}, error: {0}, doc: {0}, password: BOOLEAN,
            secret: BOOLEAN, key_token: 0..2, dangerous: {0}, prepared: {FALSE},
            crypto: {FALSE}, lines: {0, 15, 30, 45}, comment_lines: {0, 1, 5}] :
        c.comment_lines <= c.lines}

CodeFor(language) ==
    (CASE language = "python" -> PythonCode
       [] language \in {"javascript", "typescript"} -> JavascriptCode
       [] language = "java" -> JavaCode
       [] OTHER -> GenericCode) \cup {NoCode}

CodeRaise(code, language) == language = "none" \/ code.kind # "str"

_analyze_python_code(code) ==
    LET structure_score == Q(code.structure, 3)
        error_score == Q(code.error, 2)
        doc_score == Q(code.doc, 2)
        security_issues == code.dangerous + (IF code.password THEN 1 ELSE 0)
                                          + (IF code.secret THEN 1 ELSE 0)
        security_score == QMax(Pct(0), QSub(Pct(100), QMulInt(Pct(20), security_issues)))
        overall == QDivInt(QAdd(QAdd(QAdd(structure_score, error_score), doc_score), security_score), 4)
    IN  QualityMetrics(structure_score, doc_score, security_score, error_score, overall)

_analyze_javascript_code(code) ==
    LET structure_score == Q(code.structure, 3)
        error_score == Q(code.error, 2)
        doc_score == Q(code.doc, 2)
        security_issues == code.dangerous
        security_score == QMax(Pct(0), QSub(Pct(100), QMulInt(Pct(25), security_issues)))
        overall == QDivInt(QAdd(QAdd(QAdd(structure_score, error_score), doc_score), security_score), 4)
    IN  QualityMetrics(structure_score, doc_score, security_score, error_score, overall)

\* security_score = 0.7, += 0.2, += 0.1 in IEEE doubles: 0.7 + 0.2 is
\* 0.8999999999999999, 0.7 + 0.1 is 0.7999999999999999 and 0.7 + 0.2 + 0.1 is
\* 0.9999999999999999; the shortfall is modelled as one part in 10000.
JavaSecurity(prepared, crypto) ==
    CASE prepared /\ crypto   -> Q(9999, 10000)
      [] prepared /\ ~crypto  -> Q(8999, 10000)
      [] ~prepared /\ crypto  -> Q(7999, 10000)
      [] OTHER                -> Pct(70)

_analyze_java_code(code) ==
    LET structure_score == Q(code.structure, 3)
        error_score == Q(code.error, 2)
        doc_score == Q(code.doc, 2)
        security_score == JavaSecurity(code.prepared, code.crypto)
        overall == QDivInt(QAdd(QAdd(QAdd(structure_score, error_score), doc_score), security_score), 4)
    IN  QualityMetrics(structure_score, doc_score, security_score, error_score, overall)

_analyze_generic_code(code) ==
    LET structure_score == QMin(Pct(100), Q(code.lines, 30))
        \* comment_lines / max(1, len(non_empty_lines) * 0.1)
        doc_score == QMin(Pct(100),
                          Q(10 * code.comment_lines, IF code.lines > 10 THEN code.lines ELSE 10))
        security_issues == code.key_token + (IF code.password THEN 1 ELSE 0)
                                          + (IF code.secret THEN 1 ELSE 0)
        security_score == QMax(Pct(0), QSub(Pct(100), QMulInt(Pct(25), security_issues)))
        overall == QDivInt(QAdd(QAdd(structure_score, doc_score), security_score), 3)
    IN  QualityMetrics(structure_score, doc_score, security_score, Pct(70), overall)

_generate_code_feedback(metrics) ==
    LET f1 == IF QLt(metrics.completeness_score, Pct(70)) THEN <<"code structure could be improved">> ELSE <<>>
        f2 == IF QLt(metrics.security_score, Pct(70)) THEN <<"Security vulnerabilities detected">> ELSE <<>>
        f3 == IF QLt(metrics.best_practices_score, Pct(70)) THEN <<"add error handling and logging">> ELSE <<>>
        f4 == IF QLt(metrics.consistency_score, Pct(70)) THEN <<"improve documentation">> ELSE <<>>
        f5 == IF QGe(metrics.overall_score, Pct(90)) THEN <<"High-quality code">>
              ELSE IF QGe(metrics.overall_score, Pct(75)) THEN <<"Good code">> ELSE <<>>
        feedback == f1 \o f2 \o f3 \o f4 \o f5
    IN  IF feedback = <<>> THEN <<"Code meets quality standards">> ELSE feedback

CodeOutcome(level, code, language) ==
    IF CodeRaise(code, language)
    THEN Failed(NeutralMetrics, <<"Analysis failed">>)
    ELSE LET metrics ==
                 CASE language = "python" -> _analyze_python_code(code)
                   [] language \in {"javascript", "typescript"} -> _analyze_javascript_code(code)
                   [] language = "java" -> _analyze_java_code(code)
                   [] OTHER -> _analyze_generic_code(code)
         IN  Outcome(FALSE, Decide(level, metrics), metrics, _generate_code_feedback(metrics))

\* -------------------------------------------------------------- security
\* A source text as analyze_security reads it for one language:
\*   vulnerabilities  what _check_common_vulnerabilities counts (one SQL
\*                    injection, the language's dangerous functions, one XSS)
\*   auth             auth keywords and secure patterns found (of 15)
\*   validation       validation keywords found (of 10)
\*   patterns         validation patterns found (of 4)
\*   encryption       encryption keywords found (of 11)
SecurityCode ==
    [kind: {"str"}, vulnerabilities: 0..6, auth: {0, 3, 5, 7}, validation: {0, 3, 7},
     patterns: {0, 1, 4}, encryption: {0, 3, 7}]
    \cup {[kind |-> "none", vulnerabilities |-> 0, auth |-> 0, validation |-> 0,
           patterns |-> 0, encryption |-> 0]}

SecurityRaise(code, language) == language = "none" \/ code.kind # "str"

\* The most _check_common_vulnerabilities can count for a language: one SQL
\* injection, the dangerous functions listed for it, one XSS for web languages.
MostVulnerabilities(language) ==
    CASE language = "python"     -> 5
      [] language = "javascript" -> 6
      [] language = "typescript" -> 2
      [] language = "java"       -> 3
      [] OTHER                   -> 6

_check_auth_implementation(code) ==
    QMin(Pct(100), QAdd(Pct(30), QMulInt(Pct(10), code.auth)))

_check_input_validation(code) ==
    QMin(Pct(100), QAdd(QAdd(Pct(30), QMulInt(Pct(10), code.validation)),
                        QMulInt(Pct(5), code.patterns)))

_check_encryption(code) ==
    QMin(Pct(100), QAdd(Pct(50), QMulInt(Pct(8), code.encryption)))

_generate_security_feedback(metrics, vulnerabilities) ==
    LET f1 == IF vulnerabilities > 0 THEN <<"Found potential security vulnerabilities">> ELSE <<>>
        f2 == IF QLt(metrics.security_score, Pct(70)) THEN <<"Implement proper input validation">> ELSE <<>>
        f3 == IF QLt(metrics.overall_score, Pct(60)) THEN <<"Critical security improvements needed">>
              ELSE IF QGe(metrics.overall_score, Pct(90)) THEN <<"Code follows security best practices">>
              ELSE IF QGe(metrics.overall_score, Pct(75)) THEN <<"Good security posture">> ELSE <<>>
        feedback == f1 \o f2 \o f3
    IN  IF feedback = <<>> THEN <<"Security review passed">> ELSE feedback

SecurityOutcome(level, code, language) ==
    IF SecurityRaise(code, language)
    THEN Failed(NeutralMetrics, <<"Security analysis failed">>)
    ELSE LET vulnerabilities == code.vulnerabilities
             auth_score == _check_auth_implementation(code)
             validation_score == _check_input_validation(code)
             encryption_score == _check_encryption(code)
             security_score == QMax(Pct(0), QSub(Pct(100), QMulInt(Pct(10), vulnerabilities)))
             overall == QDivInt(QAdd(QAdd(QAdd(security_score, auth_score), validation_score),
                                     encryption_score), 4)
             metrics == QualityMetrics(Pct(100), Pct(100), security_score, overall, overall)
         IN  Outcome(FALSE, Decide(level, metrics), metrics,
                     _generate_security_feedback(metrics, vulnerabilities))

\* ------------------------------------------------------------ test cases
\* The test text and the code as analyze_test_cases reads them:
\*   kind        "str", "empty" (an empty string) or "none" (no string)
\*   tests       detected test cases
\*   functions   functions detected in the code
\*   code        the code argument: "str", "empty" (an empty string or None)
\*               or "bad" (a value that is neither)
\*   heavy       structure elements of weight 0.2 present (of 2)
\*   light       structure elements of weight 0.15 present (of 4)
\*   types       test types named (of 7)
\*   major       practices of weight 0.15 named (of 3)
\*   minor       practices of weight 0.1 named (of 5)
EmptyTests ==
    [kind |-> "empty", tests |-> 0, functions |-> 0, code |-> "str", heavy |-> 0,
     light |-> 0, types |-> 0, major |-> 0, minor |-> 0]

TestTexts ==
    {t \in [kind: {"str"}, tests: {0, 1, 5}, functions: 0..2, code: {"str", "empty", "bad"},
            heavy: 0..2, light: {0, 4}, types: {0, 1, 3, 4, 7}, major: 0..3, minor: {0, 5}] :
        t.code # "str" => t.functions = 0}
    \cup {EmptyTests, [EmptyTests EXCEPT !.kind = "none"], [EmptyTests EXCEPT !.code = "bad"]}

\* test_cases.lower() on a value that is no string; re.findall on a code
\* that is no string (reached only when test_cases is not empty).
TestsRaise(t) == t.kind = "none" \/ (t.kind = "str" /\ t.code = "bad")

_estimate_test_coverage(t) ==
    IF t.kind # "str" \/ t.code # "str" THEN Pct(0)
    ELSE IF t.functions = 0 THEN (IF t.tests > 0 THEN Pct(50) ELSE Pct(0))
    \* test_count / (function_count * 2.5)
    ELSE QMin(Pct(100), Q(2 * t.tests, 5 * t.functions))

_check_test_quality(t) ==
    IF t.kind # "str" THEN Pct(0)
    ELSE QMin(Pct(100), QAdd(QMulInt(Pct(20), t.heavy), QMulInt(Pct(15), t.light)))

_check_test_types(t) == QMin(Pct(100), Q(t.types, 4))

_check_test_best_practices(t) ==
    QMin(Pct(100), QAdd(QAdd(Pct(40), QMulInt(Pct(15), t.major)), QMulInt(Pct(10), t.minor)))

_generate_test_feedback(metrics) ==
    LET f1 == IF QLt(metrics.completeness_score, Pct(70)) THEN <<"Test coverage could be improved">> ELSE <<>>
        f2 == IF QLt(metrics.consistency_score, Pct(70)) THEN <<"complete the test structure">> ELSE <<>>
        f3 == IF QLt(metrics.best_practices_score, Pct(70)) THEN <<"add edge cases">> ELSE <<>>
        f4 == IF QGe(metrics.overall_score, Pct(90)) THEN <<"Comprehensive test suite">>
              ELSE IF QGe(metrics.overall_score, Pct(75)) THEN <<"Good test suite">> ELSE <<>>
        feedback == f1 \o f2 \o f3 \o f4
    IN  IF feedback = <<>> THEN <<"Test cases are well-designed">> ELSE feedback

TestsOutcome(level, t) ==
    IF TestsRaise(t)
    THEN Failed(QualityMetrics(Pct(50), Pct(50), Pct(100), Pct(50), Pct(50)),
                 <<"Test analysis failed">>)
    ELSE LET coverage == _estimate_test_coverage(t)
             quality == _check_test_quality(t)
             test_types == _check_test_types(t)
             best_practices == _check_test_best_practices(t)
             overall == QDivInt(QAdd(QAdd(QAdd(coverage, quality), test_types), best_practices), 4)
             metrics == QualityMetrics(coverage, quality, Pct(100), best_practices, overall)
         IN  Outcome(FALSE, Decide(level, metrics), metrics, _generate_test_feedback(metrics))

\* ------------------------------------------------------------ QA results
\* The QA feedback text as analyze_qa_results reads it:
\*   passed, failed   occurrences of "passed" and of "failed"
\*   critical         critical keywords found (of 8)
\*   positive         positive performance indicators found (of 5)
\*   negative         negative performance indicators found (of 6)
QaTexts ==
    [kind: {"str"}, passed: 0..2, failed: 0..2, critical: 0..8,
     positive: {0, 2, 5}, negative: {0, 1, 4, 6}]
    \cup {[kind |-> "none", passed |-> 0, failed |-> 0, critical |-> 0,
           positive |-> 0, negative |-> 0]}

QaRaise(qa) == qa.kind # "str"

\* _check_critical_failures
_check_critical_failures(qa) == qa.critical

_check_performance_indicators(qa) ==
    LET performance_score ==
            QSub(QAdd(Pct(60), QMulInt(Pct(8), qa.positive)), QMulInt(Pct(15), qa.negative))
    IN  QMax(Pct(0), QMin(Pct(100), performance_score))

_generate_qa_feedback(metrics) ==
    LET f1 == IF QLt(metrics.completeness_score, Pct(70)) THEN <<"Some tests are failing">> ELSE <<>>
        f2 == IF QLt(metrics.best_practices_score, Pct(70)) THEN <<"Performance issues detected">> ELSE <<>>
        f3 == IF QGe(metrics.overall_score, Pct(90)) THEN <<"All tests passing">>
              ELSE IF QGe(metrics.overall_score, Pct(75)) THEN <<"Most tests passing">> ELSE <<>>
        feedback == f1 \o f2 \o f3
    IN  IF feedback = <<>> THEN <<"QA validation completed successfully">> ELSE feedback

QaOutcome(level, qa) ==
    IF QaRaise(qa)
    THEN Failed(QualityMetrics(Pct(50), Pct(100), Pct(100), Pct(50), Pct(50)),
                 <<"QA analysis failed">>)
    ELSE LET total_tests == qa.passed + qa.failed
             test_pass_rate == IF total_tests = 0 THEN Pct(50) ELSE Q(qa.passed, total_tests)
             critical_failures == _check_critical_failures(qa)
             performance == _check_performance_indicators(qa)
             overall == QDivInt(QAdd(QAdd(test_pass_rate,
                                          QSub(Pct(100), QMulInt(Pct(20), critical_failures))),
                                     performance), 3)
             metrics == QualityMetrics(test_pass_rate, Pct(100), Pct(100), performance, overall)
         IN  Outcome(FALSE, Decide(level, metrics), metrics, _generate_qa_feedback(metrics))

\* ------------------------------------------------------------ the engine
\* _log_decision
_log_decision(history, stage, decision, metrics, feedback, level, timestamp) ==
    Append(history,
           [timestamp |-> timestamp, stage |-> stage, decision |-> decision,
            metrics |-> metrics, feedback |-> feedback, autonomy_level |-> level])

\* The effect of one analyze_* call with outcome o: the try block logs the
\* decision and returns; the except block returns without logging.
AnalyzeCall(stage, o) ==
    /\ decision_history' =
         IF o.raised THEN decision_history
         ELSE _log_decision(decision_history, stage, o.decision, o.metrics,
                            o.feedback, autonomy_level, now)
    /\ ret' = <<[decision |-> o.decision, metrics |-> o.metrics, feedback |-> o.feedback]>>
    /\ last_call' = [stage |-> stage, raised |-> o.raised]
    /\ calls' = calls + 1
    /\ UNCHANGED <<invoked, optimizerVars, autonomy_level, now, recoveryVars, appVars, gateVars, saveVars>>

analyze_user_stories(stories, requirements) ==
    /\ AnalyzeCall("user_stories", UserStoriesOutcome(autonomy_level, stories, requirements))
    /\ UNCHANGED answers

analyze_design_document(design_doc, stories) ==
    /\ AnalyzeCall("design_document", DesignOutcome(autonomy_level, design_doc, stories))
    /\ UNCHANGED answers

analyze_code(code, language) ==
    /\ AnalyzeCall("code_review", CodeOutcome(autonomy_level, code, language))
    /\ UNCHANGED answers

analyze_security(code, language) ==
    /\ AnalyzeCall("security_review", SecurityOutcome(autonomy_level, code, language))
    /\ UNCHANGED answers

analyze_test_cases(test_cases) ==
    /\ AnalyzeCall("test_cases", TestsOutcome(autonomy_level, test_cases))
    /\ UNCHANGED answers

analyze_qa_results(qa_feedback) ==
    /\ AnalyzeCall("qa_review", QaOutcome(autonomy_level, qa_feedback))
    /\ UNCHANGED answers

\* AutonomousDecisionEngine(level)
Construct(level) ==
    /\ autonomy_level' = level
    /\ decision_history' = <<>>
    /\ ret' = <<>>
    /\ last_call' = [stage |-> "none", raised |-> FALSE]
    /\ calls' = 0
    /\ answers' = IF level = autonomy_level THEN answers ELSE <<>>
    /\ UNCHANGED <<invoked, optimizerVars, now, recoveryVars, appVars, gateVars, saveVars>>

\* ------------------------------------------------------------ error recovery
\* The kinds with a recovery strategy of their own.
recovery_strategies ==
    {"api_error", "validation_error", "generation_error", "timeout_error",
     "import_error", "workflow_error"}

\* The kinds callers report: the known ones and one without a strategy.
ErrorTypes == recovery_strategies \cup {"unknown_error"}

\* dict.get(k, default)
Get(d, k, default) == IF k \in DOMAIN d THEN d[k] ELSE default

\* d[k] = v
Put(d, k, v) == [x \in DOMAIN d \cup {k} |-> IF x = k THEN v ELSE d[x]]

Models == {"gemma2-9b-it", "llama-3.1-70b-versatile", "deepseek-r1-distill-llama-70b"}

fallback_models == <<"gemma2-9b-it", "llama-3.1-70b-versatile">>

\* The error_details dicts callers build for an API failure.
RetryDetails == {<<>>, [retry_count |-> 2]}

\* The workflow states callers pass with an API failure.
RetryStates == {<<>>} \cup {[llm_model |-> m] : m \in Models \ {"gemma2-9b-it"}}

\* The error_details dicts callers build for the other failures.
FreshDetails == {[retry_count |-> 0]}

\* The workflow states callers pass with the other failures.
FreshStates ==
    {<<>>,
     [active_node |-> "Generate Code", llm_model |-> "gemma2-9b-it"],
     [active_node |-> "QA Testing", llm_model |-> "llama-3.1-70b-versatile"]}

\* What a strategy hands back: the (recovered, action) pair, the error_details
\* dict as it leaves it, and the seconds it slept.
Recovery(recovered, action, details, slept) ==
    [recovered |-> recovered, action |-> action, details |-> details, slept |-> slept]

\* A fallback search that looks at the first fallback model only.
FirstOtherOfOne(current_model) ==
    IF fallback_models[1] # current_model THEN fallback_models[1] ELSE ""

\* The first fallback model that is not the current one, "" when there is none.
FirstOther(current_model) ==
    LET others == {i \in DOMAIN fallback_models : fallback_models[i] # current_model}
    IN  IF others = {} THEN ""
        ELSE fallback_models[CHOOSE i \in others : \A j \in others : i <= j]

retry_budget_two(retry_count) == retry_count < 2

\* if retry_count < 3
retry_budget(retry_count) == retry_count < 3

\* min(2 ** retry_count, 10)
backoff(retry_count) == IF 2 ^ retry_count < 10 THEN 2 ^ retry_count ELSE 10

_recover_from_api_error(error_details, state) ==
    LET retry_count == Get(error_details, "retry_count", 0)
        wait_time == backoff(retry_count)
        current_model == Get(state, "llm_model", "gemma2-9b-it")
    IN  IF retry_budget(retry_count)
        THEN Recovery(TRUE,
                      [action |-> "retry", wait_time |-> wait_time,
                       attempt |-> retry_count + 1],
                      Put(error_details, "retry_count", retry_count + 1),
                      wait_time)
        ELSE IF FirstOther(current_model) # ""
        THEN Recovery(TRUE,
                      [action |-> "switch_model",
                       fallback_model |-> FirstOther(current_model)],
                      error_details, 0)
        ELSE Recovery(FALSE,
                      [action |-> "manual_intervention",
                       message |-> "All API retry attempts failed"],
                      error_details, 0)

_recover_from_validation_error(error_details, state) ==
    Recovery(TRUE, [action |-> "enhance_prompt", suggestions |-> 4], error_details, 0)

_recover_from_generation_error(error_details, state) ==
    Recovery(TRUE,
             [action |-> "simplify_and_retry", strategy |-> "break_into_smaller_parts"],
             error_details, 0)

_recover_from_timeout_error(error_details, state) ==
    LET doubled == Get(error_details, "timeout", 60) * 2
    IN  Recovery(TRUE,
                 [action |-> "increase_timeout_and_retry",
                  new_timeout |-> IF doubled < 180 THEN doubled ELSE 180],
                 error_details, 0)

_recover_from_import_error(error_details, state) ==
    Recovery(TRUE,
             [action |-> "install_dependency",
              module |-> Get(error_details, "module", "unknown")],
             error_details, 0)

_recover_from_workflow_error(error_details, state) ==
    Recovery(TRUE, [action |-> "reset_stage"], error_details, 0)

_generic_recovery(error_details, state) ==
    Recovery(TRUE,
             [action |-> "manual_intervention",
              message |-> "An unexpected error occurred"],
             error_details, 0)

\* recovery_strategies[error_type](error_details, state), or the generic one
Dispatch(error_type, error_details, state) ==
    CASE error_type = "api_error" -> _recover_from_api_error(error_details, state)
      [] error_type = "validation_error" -> _recover_from_validation_error(error_details, state)
      [] error_type = "generation_error" -> _recover_from_generation_error(error_details, state)
      [] error_type = "timeout_error" -> _recover_from_timeout_error(error_details, state)
      [] error_type = "import_error" -> _recover_from_import_error(error_details, state)
      [] error_type = "workflow_error" -> _recover_from_workflow_error(error_details, state)
      [] OTHER -> _generic_recovery(error_details, state)

error_record_no_stage(error_type, ref, timestamp, state) ==
    [type |-> error_type, details |-> ref, timestamp |-> timestamp,
     state_stage |-> "unknown"]

\* The record handle_error builds; details holds the caller's dict itself.
error_record(error_type, ref, timestamp, state) ==
    [type |-> error_type, details |-> ref, timestamp |-> timestamp,
     state_stage |-> Get(state, "active_node", "unknown")]

\* An entry of error_details that is no number (None, a string) is held under
\* the key's name followed by "_other".  Whether the strategy of the kind
\* raises TypeError on the dict: retry_count < 3 in the api_error strategy,
\* timeout * 2 and min(180, ...) in the timeout_error strategy.
StrategyRaises(error_type, error_details) ==
    \/ error_type = "api_error" /\ "retry_count_other" \in DOMAIN error_details
    \/ error_type = "timeout_error" /\ "timeout_other" \in DOMAIN error_details

\* handle_error on the dict heap[ref] of the heap h the caller holds.  The
\* record is appended before the strategy runs; a strategy that raises leaves
\* the dict alone and the exception reaches the caller.
handle_error(h, error_type, ref, state) ==
    IF StrategyRaises(error_type, h[ref])
    THEN /\ error_history' = Append(error_history, error_record(error_type, ref, now, state))
         /\ heap' = h
         /\ trace' = Append(trace,
                            [type |-> error_type, ref |-> ref, state |-> state, at |-> now,
                             given |-> h[ref], tried |-> tried, raised |-> TRUE])
         /\ UNCHANGED <<tried, now, invoked, optimizerVars, engineVars, appVars, gateVars, saveVars>>
    ELSE
    LET r == Dispatch(error_type, h[ref], state)
        exhausted == error_type = "api_error" /\ r.action.action # "retry"
        current_model == Get(state, "llm_model", "gemma2-9b-it")
    IN  /\ error_history' = Append(error_history, error_record(error_type, ref, now, state))
        /\ heap' = [h EXCEPT ![ref] = r.details]
        /\ now' = now + r.slept
        /\ trace' = Append(trace,
                           [type |-> error_type, ref |-> ref, state |-> state, at |-> now,
                            given |-> h[ref], tried |-> tried,
                            recovered |-> r.recovered, action |-> r.action])
        /\ tried' = IF exhausted THEN tried \cup {current_model} ELSE tried
        /\ UNCHANGED <<invoked, optimizerVars, engineVars, appVars, gateVars, saveVars>>

\* get_error_summary; None is the empty tuple, the last record a 1-tuple.
get_error_summary(history) ==
    IF history = <<>>
    THEN [total_errors |-> 0, error_types |-> <<>>, last_error |-> <<>>]
    ELSE [total_errors |-> Len(history),
          error_types |-> [t \in {history[i].type : i \in DOMAIN history} |->
                             Cardinality({i \in DOMAIN history : history[i].type = t})],
          last_error |-> <<history[Len(history)]>>,
          recovery_rate |->
              Q(Cardinality({i \in DOMAIN history : Get(history[i], "recovered", FALSE)}),
                Len(history))]

\* A caller builds an error_details dict.
NewErrorDetails(d) ==
    /\ Len(heap) < MaxDicts
    /\ heap' = Append(heap, d)
    /\ UNCHANGED <<invoked, optimizerVars, engineVars, appVars, gateVars, saveVars, error_history, trace, tried, now>>

\* A caller reports an API failure with a dict it holds.
RetryCall(ref, state) ==
    /\ Len(trace) < MaxRetryCalls
    /\ handle_error(heap, "api_error", ref, state)

\* A caller reports a failure with a dict built for the call.
FreshCall(error_type, d, state) ==
    /\ Len(trace) < MaxHandled
    /\ handle_error(Append(heap, d), error_type, Len(heap) + 1, state)

\* The error_details dicts a caller may pass: entries absent, numbers, and
\* entries that are no numbers.
AnyDetails ==
    {<<>>, [retry_count |-> 0], [retry_count |-> 3], [retry_count_other |-> "3"],
     [timeout |-> 30], [timeout |-> 120], [timeout_other |-> "None"], [module |-> "groq"]}

\* A caller reports a failure of any kind with any dict and state.
ReportAny(error_type, d, state) ==
    /\ Len(trace) < MaxReports
    /\ handle_error(Append(heap, d), error_type, Len(heap) + 1, state)

\* ------------------------------------------------------------ the page
flow_order ==
    <<"User Requirements", "Auto-generate User Stories", "Human User Story Approval",
      "Create Design Document", "Human Design Document Review", "Generate Code",
      "Human Code Review", "Security Review", "Human Security Review",
      "Write Test Cases", "Human Test Cases Review", "QA Testing",
      "Human QA Review", "Deployment">>

\* What one graph.stream call does before it returns or raises: the nodes
\* of the events it yields, a run of consecutive stages, and whether it
\* then raises.
Streams ==
    [yielded : {SubSeq(flow_order, first, last) :
                    first \in 1..Len(flow_order), last \in 0..Len(flow_order)},
     raises : BOOLEAN]

\* The place of a node in flow_order.
Position(node) == CHOOSE i \in DOMAIN flow_order : flow_order[i] = node

\* The stream goes on from the active node: with the stage after it, or,
\* when a review sends the work back, with the stage before it.
Continues(stream) ==
    IF stream.yielded = <<>> THEN TRUE
    ELSE Position(stream.yielded[1]) \in {Position(active_node) + 1, Position(active_node) - 1}

\* for event in graph.stream(...): events.append(event); active_node = node
Consume(stream) ==
    /\ Continues(stream)
    /\ events' = events \o stream.yielded
    /\ active_node' = IF stream.yielded = <<>> THEN active_node
                      ELSE stream.yielded[Len(stream.yielded)]

\* The fields of st.session_state.state the model follows.
SessionState ==
    [autonomy_level |-> autonomy_level,
     security_review_status |-> security_review_status,
     qa_review_status |-> qa_review_status,
     autonomous_decisions |-> autonomous_decisions]

\* The save_data dict auto_save_state dumps; language and model are further
\* fields read from the state.
save_data(timestamp, state) ==
    [timestamp |-> timestamp, state |-> state, autonomy |-> state.autonomy_level]

\* auto_save_state() called with the session at the given active node.
auto_save_state(node) ==
    IF auto_save_enabled
    THEN /\ saved' = <<save_data(now, SessionState)>>
         /\ saved_at' = node
         /\ UNCHANGED auto_save_enabled
    ELSE UNCHANGED saveVars

\* The Start Intelligent Workflow button: the state is saved, the stream runs
\* inside try, and the except branch shows the error and an information line.
StartWorkflow(word_count, stream) ==
    /\ Len(events) + Len(stream.yielded) <= MaxEvents
    /\ stream.raises => stream_failures < MaxFailures
    /\ IF word_count < 10
       THEN /\ script' = "rejected"
            /\ UNCHANGED <<active_node, events, stream_failures, saveVars>>
       ELSE /\ auto_save_state(active_node)
            /\ Consume(stream)
            /\ script' = IF stream.raises THEN "error_shown" ELSE "rerun"
            /\ stream_failures' = stream_failures + (IF stream.raises THEN 1 ELSE 0)
    /\ UNCHANGED <<invoked, optimizerVars, engineVars, recoveryVars, gateVars, now>>

\* The Submit Review button of the User Stories tab, shown once the stories
\* have arrived: update_state with the reviewer's status, then the stream is
\* resumed outside any try, then the state is saved.
SubmitReview(status, stream) ==
    /\ events # <<>>
    /\ Len(events) + Len(stream.yielded) <= MaxEvents
    /\ stream.raises => stream_failures < MaxFailures
    /\ Len(decisions_made) < MaxDecisions
    /\ decisions_made' = Append(decisions_made,
                                [by |-> "human", stage |-> "user_stories", decision |-> status])
    /\ Consume(stream)
    /\ script' = IF stream.raises THEN "uncaught" ELSE "rerun"
    /\ stream_failures' = stream_failures + (IF stream.raises THEN 1 ELSE 0)
    /\ IF stream.raises THEN UNCHANGED saveVars ELSE auto_save_state(active_node')
    /\ UNCHANGED <<invoked, optimizerVars, engineVars, recoveryVars, now>>
    /\ UNCHANGED <<security_review_status, security_review_feedback, qa_review_status, autonomous_decisions, review>>

\* The Submit QA Decision button of the QA tab, shown once QA feedback has
\* arrived: update_state with the reviewer's status, then the stream is
\* resumed outside any try.
SubmitQADecision(status, stream) ==
    /\ \E i \in DOMAIN events : events[i] = "QA Testing"
    /\ Len(events) + Len(stream.yielded) <= Len(flow_order) + MaxEvents
    /\ stream.raises => stream_failures < MaxFailures
    /\ Len(decisions_made) < MaxDecisions
    /\ decisions_made' = Append(decisions_made,
                                [by |-> "human", stage |-> "qa_review", decision |-> status])
    /\ qa_review_status' = status
    /\ Consume(stream)
    /\ script' = IF stream.raises THEN "uncaught" ELSE "rerun"
    /\ stream_failures' = stream_failures + (IF stream.raises THEN 1 ELSE 0)
    /\ UNCHANGED <<invoked, optimizerVars, engineVars, recoveryVars, saveVars, now>>
    /\ UNCHANGED <<security_review_status, security_review_feedback, autonomous_decisions, review>>

\* The page's event loop over safe_graph_stream(state, thread): the events of
\* graph.stream, and when it raises one more event, {"Human QA Review":
\* emergency_state}, whose qa_review_status is "Approve".
safe_graph_stream(stream) ==
    LET yielded == IF stream.raises THEN Append(stream.yielded, "Human QA Review")
                   ELSE stream.yielded
    IN  /\ Continues(stream)
        /\ Len(events) + Len(yielded) <= Len(flow_order) + MaxEvents
        /\ stream.raises => stream_failures < MaxFailures
        /\ events' = events \o yielded
        /\ active_node' = IF yielded = <<>> THEN active_node ELSE yielded[Len(yielded)]
        /\ qa_review_status' = IF stream.raises THEN "Approve" ELSE qa_review_status
        /\ script' = "rerun"
        /\ stream_failures' = stream_failures + (IF stream.raises THEN 1 ELSE 0)
        /\ UNCHANGED <<invoked, optimizerVars, engineVars, recoveryVars, saveVars, now>>
        /\ UNCHANGED <<security_review_status, security_review_feedback, autonomous_decisions, decisions_made, review>>

\* The Save Project button.
SaveProject ==
    /\ auto_save_state(active_node)
    /\ UNCHANGED <<invoked, optimizerVars, engineVars, recoveryVars, appVars, gateVars, now>>

\* The Enable Auto-Save checkbox.
ToggleAutoSave ==
    /\ auto_save_enabled' = ~auto_save_enabled
    /\ UNCHANGED <<invoked, optimizerVars, saved, saved_at, engineVars, recoveryVars, appVars, gateVars, now>>

\* The quality analysis of the User Stories tab: unless the level is manual,
\* an engine built for the render analyses the stories and its recommendation
\* is displayed; the engine and its decision_history are then dropped.
UserStoriesTab(stories, requirements) ==
    LET o == UserStoriesOutcome(autonomy_level, stories, requirements)
    IN  /\ events # <<>>
        /\ IF autonomy_level = "manual"
           THEN UNCHANGED decisions_made
           ELSE /\ Len(decisions_made) < MaxDecisions
                /\ decisions_made' =
                       Append(decisions_made,
                              [by |-> "engine", stage |-> "user_stories",
                               decision |-> o.decision])
        /\ UNCHANGED <<invoked, optimizerVars, engineVars, recoveryVars, appVars, saveVars, now>>
        /\ UNCHANGED <<security_review_status, security_review_feedback, qa_review_status, autonomous_decisions, review>>

AutoApprovesAnyLevel(level, decision) == decision = "Approve"

\* A reading of the LLM's answer that takes any answer for an approval.
ReviewStatusLenient(response_text) == "Approve"

\* "Approve" if "Status: Approve" in response_text or "Status: APPROVE" in
\* response_text, else "Denied"
ReviewStatus(response_text) ==
    IF response_text \in {"Status: Approve", "Status: APPROVE"} THEN "Approve" ELSE "Denied"

\* if decision == "Approve" and state.get('autonomy_level') in ['full_auto', 'expert_auto']
AutoApproves(level, decision) ==
    decision = "Approve" /\ level \in {"full_auto", "expert_auto"}

\* security_review_enhanced: unless the level is manual an engine built for
\* the call analyses the code; an "Approve" at full_auto or expert_auto
\* approves the stage and returns; otherwise the LLM reviews and its answer
\* sets the status.
security_review_enhanced(code, language, llm_approves) ==
    LET o == SecurityOutcome(autonomy_level, code, language)
        consulted == autonomy_level # "manual"
        approved == consulted /\ AutoApproves(autonomy_level, o.decision)
        response_text == IF llm_approves THEN "Status: Approve" ELSE "Status: Denied"
    IN  /\ IF consulted
           THEN /\ Len(decisions_made) < MaxDecisions
                /\ decisions_made' =
                       Append(decisions_made,
                              [by |-> "engine", stage |-> "security_review",
                               decision |-> o.decision])
           ELSE UNCHANGED decisions_made
        /\ security_review_status' =
               IF approved THEN "Approve" ELSE ReviewStatus(response_text)
        /\ security_review_feedback' =
               IF approved THEN [prefix |-> "[AUTONOMOUS]", text |-> o.feedback]
               ELSE [prefix |-> "", text |-> <<response_text>>]
        /\ autonomous_decisions' =
               IF approved
               THEN Append(autonomous_decisions,
                           [stage |-> "security_review", decision |-> "Approve",
                            score |-> o.metrics.overall_score, timestamp |-> now])
               ELSE autonomous_decisions
        /\ review' = <<[decision |-> IF consulted THEN o.decision ELSE "none",
                        llm_invoked |-> ~approved,
                        logged_before |-> Len(autonomous_decisions),
                        level |-> autonomy_level,
                        response |-> IF approved THEN "" ELSE response_text]>>
        /\ UNCHANGED <<invoked, optimizerVars, qa_review_status, engineVars, recoveryVars, appVars, saveVars, now>>

\* The sidebar's selectbox: st.session_state.state["autonomy_level"] = autonomy_level
SelectAutonomy(level) ==
    /\ level # autonomy_level
    /\ autonomy_level' = level
    /\ UNCHANGED <<decision_history, ret, last_call, calls, answers>>
    /\ UNCHANGED <<invoked, optimizerVars, recoveryVars, appVars, gateVars, saveVars, now>>

\* ------------------------------------------------------------ specifications
InitApp ==
    /\ active_node = "User Requirements"
    /\ events = <<>>
    /\ script = "rerun"
    /\ stream_failures = 0
    /\ security_review_status = "Approve"
    /\ security_review_feedback = [prefix |-> "", text |-> <<>>]
    /\ qa_review_status = "Approve"
    /\ autonomous_decisions = <<>>
    /\ auto_save_enabled = TRUE
    /\ saved = <<>>
    /\ saved_at = "none"
    /\ decisions_made = <<>>
    /\ review = <<>>

\* WorkflowOptimizer()
InitOptimizer ==
    /\ performance_history = <<>>
    /\ analysis = <<>>
    /\ recorded = <<>>
    /\ invoked = <<>>

InitEngine ==
    /\ decision_history = <<>>
    /\ ret = <<>>
    /\ last_call = [stage |-> "none", raised |-> FALSE]
    /\ calls = 0
    /\ answers = <<>>

InitRecovery ==
    /\ error_history = <<>>
    /\ heap = <<>>
    /\ trace = <<>>
    /\ tried = {}

\* A new engine at any level; one analyze_* call with inputs from the whole domain.
Init ==
    /\ autonomy_level \in AutonomyLevel
    /\ InitEngine
    /\ InitRecovery
    /\ InitOptimizer
    /\ InitApp
    /\ now = 0

NextScoring ==
    \/ \E level \in AutonomyLevel : Construct(level)
    \/ /\ calls = 0
       /\ \E stories \in StoryLists, requirements \in Requirements :
              analyze_user_stories(stories, requirements)
    \/ /\ calls = 0
       /\ \E design_doc \in DesignDocs, stories \in DesignStoryLists :
              analyze_design_document(design_doc, stories)
    \/ /\ calls = 0
       /\ \E language \in Languages : \E code \in CodeFor(language) :
              analyze_code(code, language)
    \/ /\ calls = 0
       /\ \E language \in Languages, code \in SecurityCode :
              /\ code.kind = "str" => code.vulnerabilities <= MostVulnerabilities(language)
              /\ analyze_security(code, language)
    \/ /\ calls = 0
       /\ \E test_cases \in TestTexts : analyze_test_cases(test_cases)
    \/ /\ calls = 0
       /\ \E qa_feedback \in QaTexts : analyze_qa_results(qa_feedback)

SpecScoring == Init /\ [][NextScoring]_vars

\* The session's recovery engine (streamlit_app.py builds it next to a
\* semi_auto state) handling API failures on dicts the callers keep.
InitSession ==
    /\ autonomy_level = "semi_auto"
    /\ InitEngine
    /\ InitRecovery
    /\ InitOptimizer
    /\ InitApp
    /\ now = 0

NextRetry ==
    \/ \E d \in RetryDetails : NewErrorDetails(d)
    \/ \E ref \in DOMAIN heap, state \in RetryStates : RetryCall(ref, state)

SpecRetry == InitSession /\ [][NextRetry]_vars

NextReports ==
    \E error_type \in ErrorTypes, d \in AnyDetails \cup RetryDetails,
       state \in FreshStates \cup RetryStates :
        ReportAny(error_type, d, state)

\* Failures of every kind reported with every content of the dicts.
SpecReports == InitSession /\ [][NextReports]_vars

NextRecovery ==
    \E error_type \in ErrorTypes, d \in FreshDetails, state \in FreshStates :
        FreshCall(error_type, d, state)

SpecRecovery == InitSession /\ [][NextRecovery]_vars

\* The page's buttons over a graph whose streams may fail.
NextApp ==
    \/ \E word_count \in {9, 10}, stream \in Streams : StartWorkflow(word_count, stream)
    \/ \E status \in {"Approve", "Denied"}, stream \in Streams : SubmitReview(status, stream)
    \/ SaveProject
    \/ ToggleAutoSave

SpecApp == InitSession /\ [][NextApp]_vars

\* Stories and requirements shown in the User Stories tab.
GateStories ==
    {<<>>,
     <<[kind |-> "str", as_a |-> TRUE, i_want |-> TRUE, so_that |-> TRUE,
        words |-> 12, testable |-> TRUE, kw |-> {"k1"}]>>}

GateRequirements == {r \in Requirements : r.kind = "str" /\ r.kw = {"k1"}}

\* Generated code handed to the security review: hardened, ordinary, unsafe.
ReviewCodes ==
    {[kind |-> "str", vulnerabilities |-> 0, auth |-> 7, validation |-> 7,
      patterns |-> 4, encryption |-> 7],
     [kind |-> "str", vulnerabilities |-> 0, auth |-> 5, validation |-> 3,
      patterns |-> 0, encryption |-> 3],
     [kind |-> "str", vulnerabilities |-> 5, auth |-> 0, validation |-> 0,
      patterns |-> 0, encryption |-> 0]}

\* Streams after the QA gate: one that ends or fails at once, one that deploys.
GateStreams ==
    {stream \in Streams : stream.yielded = <<>>}
        \cup {[yielded |-> <<"Deployment">>, raises |-> FALSE]}

\* A run at any level that has reached the QA gate.
InitGates ==
    /\ autonomy_level \in AutonomyLevel
    /\ InitEngine
    /\ InitRecovery
    /\ InitOptimizer
    /\ active_node = "Human QA Review"
    /\ events = SubSeq(flow_order, 2, Position("Human QA Review"))
    /\ script = "rerun"
    /\ stream_failures = 0
    /\ security_review_status = "Approve"
    /\ security_review_feedback = [prefix |-> "", text |-> <<>>]
    /\ qa_review_status = "Approve"
    /\ autonomous_decisions = <<>>
    /\ auto_save_enabled = TRUE
    /\ saved = <<>>
    /\ saved_at = "none"
    /\ decisions_made = <<>>
    /\ review = <<>>
    /\ now = 0

NextGates ==
    \/ \E stories \in GateStories, requirements \in GateRequirements :
           UserStoriesTab(stories, requirements)
    \/ \E code \in ReviewCodes, llm_approves \in BOOLEAN :
           security_review_enhanced(code, "python", llm_approves)
    \/ \E status \in {"Approve", "Denied"}, stream \in GateStreams :
           SubmitQADecision(status, stream)

\* The security review node, the User Stories tab and the QA decision.
SpecGates == InitGates /\ [][NextGates]_vars

\* The codes of the reviews, and one that only expert_auto approves.
SecurityRunCodes ==
    ReviewCodes \cup {[kind |-> "str", vulnerabilities |-> 0, auth |-> 3, validation |-> 3,
                        patterns |-> 0, encryption |-> 3]}

NextSecurityRuns ==
    \/ \E code \in SecurityRunCodes, llm_approves \in BOOLEAN :
           security_review_enhanced(code, "python", llm_approves)
    \/ \E level \in AutonomyLevel : SelectAutonomy(level)

\* Security reviews run one after another while the level is changed between them.
SpecSecurityRuns == InitGates /\ [][NextSecurityRuns]_vars

NextSafeStream ==
    \/ \E status \in {"Approve", "Denied"}, stream \in GateStreams :
           SubmitQADecision(status, stream)
    \/ \E stream \in GateStreams : safe_graph_stream(stream)

\* The QA decision and streams run through safe_graph_stream.
SpecSafeStream == InitGates /\ [][NextSafeStream]_vars

\* ------------------------------------------------- repeated analyses
\* Two artifacts for each analyze_* method, with the context they go with.
RequirementSamples ==
    <<[kind |-> "str", kw |-> {"k1"}], [kind |-> "str", kw |-> {"k2"}],
      [kind |-> "str", kw |-> {"k1", "k2"}], [kind |-> "str", kw |-> {}],
      [kind |-> "empty", kw |-> {}], [kind |-> "bad", kw |-> {}]>>

\* One well-formed story with the first requirements, then the empty story
\* list with each requirements value.
StorySamples ==
    <<[stories |-> <<[kind |-> "str", as_a |-> TRUE, i_want |-> TRUE, so_that |-> TRUE,
                      words |-> 12, testable |-> TRUE, kw |-> {"k1"}]>>,
       requirements |-> RequirementSamples[1]]>>
    \o [i \in 1..Len(RequirementSamples) |->
            [stories |-> <<>>, requirements |-> RequirementSamples[i]]]

DesignSamples ==
    <<[design_doc |-> [kind |-> "dict", functional |-> 5,
                       technical |-> [items |-> 5, aspects |-> 7, security_keywords |-> 10]],
       stories |-> <<>>],
      [design_doc |-> [kind |-> "dict", functional |-> 1,
                       technical |-> [items |-> 1, aspects |-> 0, security_keywords |-> 0]],
       stories |-> <<[kind |-> "str", key_parts |-> 2, matches |-> 1]>>]>>

CodeSamples ==
    <<[CodeDefaults EXCEPT !.structure = 3, !.error = 2, !.doc = 2],
      [CodeDefaults EXCEPT !.structure = 1, !.password = TRUE, !.dangerous = 4]>>

SecuritySamples ==
    <<[kind |-> "str", vulnerabilities |-> 0, auth |-> 7, validation |-> 7,
       patterns |-> 4, encryption |-> 7],
      [kind |-> "str", vulnerabilities |-> 5, auth |-> 0, validation |-> 0,
       patterns |-> 0, encryption |-> 0]>>

TestSamples ==
    <<[kind |-> "str", tests |-> 5, functions |-> 2, code |-> "str", heavy |-> 2,
       light |-> 4, types |-> 7, major |-> 3, minor |-> 5],
      [EmptyTests EXCEPT !.kind = "none"]>>

QaSamples ==
    <<[kind |-> "str", passed |-> 2, failed |-> 0, critical |-> 0, positive |-> 5,
       negative |-> 0],
      [kind |-> "str", passed |-> 1, failed |-> 2, critical |-> 3, positive |-> 0,
       negative |-> 4]>>

Stages ==
    {"user_stories", "design_document", "code_review", "security_review",
     "test_cases", "qa_review"}

SampleCount(stage) == IF stage = "user_stories" THEN Len(StorySamples) ELSE 2

\* What the analyze_* method of a stage computes for sample k at a level.
SampleOutcome(level, stage, k) ==
    CASE stage = "user_stories" ->
           UserStoriesOutcome(level, StorySamples[k].stories, StorySamples[k].requirements)
      [] stage = "design_document" ->
           DesignOutcome(level, DesignSamples[k].design_doc, DesignSamples[k].stories)
      [] stage = "code_review" -> CodeOutcome(level, CodeSamples[k], "python")
      [] stage = "security_review" -> SecurityOutcome(level, SecuritySamples[k], "python")
      [] stage = "test_cases" -> TestsOutcome(level, TestSamples[k])
      [] stage = "qa_review" -> QaOutcome(level, QaSamples[k])

\* One analyze_* call of the session, noted with the time and the length of
\* the engine's history at the call.
SessionAnalyze(stage, k) ==
    /\ Len(answers) < MaxCalls
    /\ AnalyzeCall(stage, SampleOutcome(autonomy_level, stage, k))
    /\ answers' = Append(answers, [stage |-> stage, sample |-> k, result |-> ret'[1],
                                   at |-> now, logged |-> Len(decision_history)])

\* Time passes between calls.
Tick ==
    /\ now < MaxTime
    /\ now' = now + 1
    /\ UNCHANGED <<invoked, optimizerVars, engineVars, recoveryVars, appVars, gateVars, saveVars>>

NextSession ==
    \/ \E stage \in Stages : \E k \in 1..SampleCount(stage) : SessionAnalyze(stage, k)
    \/ Construct(autonomy_level)
    \/ Tick

\* Analyses repeated within a session, on one engine or on a new one of the
\* same level, as time passes.
SpecSession == Init /\ [][NextSession]_vars

\* ------------------------------------------- four well-formed stories
\* The well-formed stories in a fixed order: position i differs from every
\* other position in its length, its testability or its keywords.
WellFormedStory(i) ==
    [kind |-> "str", as_a |-> TRUE, i_want |-> TRUE, so_that |-> TRUE,
     words |-> <<7, 12, 61>>[(i % 3) + 1],
     testable |-> ((i \div 3) % 2 = 1),
     kw |-> IF i \div 6 = 1 THEN {"k1"} ELSE {}]

\* The position of the k-th smallest element of a set of positions.
RECURSIVE Ascending(_)
Ascending(positions) ==
    IF positions = {} THEN <<>>
    ELSE LET least == CHOOSE i \in positions : \A j \in positions : i <= j
         IN  <<least>> \o Ascending(positions \ {least})

\* Lists of four distinct stories that each hold the three clauses.
FourStoryLists ==
    {[k \in 1..4 |-> WellFormedStory(Ascending(positions)[k])] :
        positions \in {chosen \in SUBSET (0..11) : Cardinality(chosen) = 4}}

\* A requirements text of some sixty words, by the keywords it holds.
RequirementTexts == {r \in Requirements : r.kind = "str"}

\* An analyze_* call on a new engine, noted with its arguments.
AnalyzeNoted(stage, arguments, o) ==
    /\ calls = 0
    /\ AnalyzeCall(stage, o)
    /\ answers' = Append(answers, [stage |-> stage, sample |-> arguments,
                                   result |-> ret'[1], at |-> now,
                                   logged |-> Len(decision_history)])

AnalyzeScenario(stories, requirements) ==
    AnalyzeNoted("user_stories", [stories |-> stories, requirements |-> requirements],
                 UserStoriesOutcome(autonomy_level, stories, requirements))

\* Lists of stories that hold any of the three clauses.
ClauseLists == UNION {[1..n -> ClauseStories] : n \in 1..MaxStories}

NextClauses ==
    \E stories \in ClauseLists, requirements \in RequirementTexts :
        AnalyzeScenario(stories, requirements)

\* One analysis of stories with any clauses at each level.
SpecClauses == Init /\ [][NextClauses]_vars

NextStories ==
    \E stories \in FourStoryLists, requirements \in RequirementTexts :
        AnalyzeScenario(stories, requirements)

\* One analysis of four well-formed stories at each level.
SpecStories == Init /\ [][NextStories]_vars

\* ------------------------------------------------- code of each language
\* The languages analyze_code tells apart, and one it does not know.
CodeLanguages == Languages \ {"none"}

AnalyzeCodeNoted(code, language) ==
    AnalyzeNoted("code_review", [code |-> code, language |-> language],
                 CodeOutcome(autonomy_level, code, language))

NextCode ==
    \E language \in CodeLanguages : \E code \in CodeFor(language) \ {NoCode} :
        AnalyzeCodeNoted(code, language)

\* One analysis of a piece of code of any language at each level.
SpecCode == Init /\ [][NextCode]_vars

\* ------------------------------------------------------ GroqErrorHandler
\* self.max_retries
max_retries == 3
\* self.retry_delay
retry_delay == 2

\* GROQ_API_KEY as the environment holds it: unset, the placeholder of the
\* template, a key of another service, a Groq key.
ApiKeys == {"", "your_groq_api_key_here", "sk_other", "gsk_live"}

check_api_key(api_key) ==
    /\ api_key # ""
    /\ api_key # "your_groq_api_key_here"
    /\ api_key \in {"gsk_live"}

\* What llm.invoke does when called: it returns a response, or raises an
\* exception whose message names a rate limit, the context length, an
\* invalid request, or nothing the handler looks for.
LlmOutcomes == {"response", "rate limit", "context length", "invalid request", "other"}

\* What the LLM would do at each invocation, one more than the handler may make.
LlmBehaviours == [1..(max_retries + 1) -> LlmOutcomes]

\* A handler that would go on after an invalid request.
ends_attempts_never(outcome) == FALSE

\* elif "invalid request" in error_msg: break
ends_attempts(outcome) == outcome = "invalid request"

\* for attempt in range(self.max_retries)
attempts_left(attempt) == attempt < max_retries

\* What safe_llm_invoke returns: None is the empty tuple, a response the
\* 1-tuple of the invocation that gave it.
Invoked(returned, invocations, slept) ==
    [returned |-> returned, invocations |-> invocations, slept |-> slept]

RECURSIVE Attempts(_, _, _)
\* The loop from `attempt` on, after `slept` seconds of sleep.
Attempts(behaviour, attempt, slept) ==
    IF ~attempts_left(attempt) THEN Invoked(<<>>, attempt, slept)
    ELSE LET waited == slept + (IF attempt > 0 THEN retry_delay * attempt ELSE 0)
             outcome == behaviour[attempt + 1]
             after == waited + (IF outcome = "rate limit" THEN 5 ELSE 0)
         IN  IF outcome = "response" THEN Invoked(<<attempt + 1>>, attempt + 1, waited)
             ELSE IF ends_attempts(outcome) THEN Invoked(<<>>, attempt + 1, waited)
             ELSE IF attempt = max_retries - 1 THEN Invoked(<<>>, attempt + 1, after)
             ELSE Attempts(behaviour, attempt + 1, after)

\* safe_llm_invoke(llm, prompt_data, stage_name) with the key the environment
\* holds and an LLM that behaves as given.
safe_llm_invoke(api_key, behaviour) ==
    LET run == IF ~check_api_key(api_key) THEN Invoked(<<>>, 0, 0)
               ELSE Attempts(behaviour, 0, 0)
    IN  /\ invoked = <<>>
        /\ invoked' = <<[api_key |-> api_key, behaviour |-> behaviour,
                         returned |-> run.returned, invocations |-> run.invocations]>>
        /\ now' = now + run.slept
        /\ UNCHANGED <<engineVars, recoveryVars, appVars, gateVars, saveVars, optimizerVars>>

NextInvoke ==
    \E api_key \in ApiKeys, behaviour \in LlmBehaviours : safe_llm_invoke(api_key, behaviour)

\* One request sent through safe_llm_invoke.
SpecInvoke == InitSession /\ [][NextInvoke]_vars

\* ------------------------------------------ one input at several levels
\* Config.QUALITY_THRESHOLDS[level]
QUALITY_THRESHOLDS(level) ==
    CASE level = "manual"      -> Pct(100)
      [] level = "semi_auto"   -> Pct(85)
      [] level = "full_auto"   -> Pct(75)
      [] level = "expert_auto" -> Pct(70)

\* AutonomousDecisionEngine(level) replacing an engine of another level that
\* has answered, built by a caller that keeps the answers it was given.
ConstructNext(level) ==
    /\ calls > 0
    /\ level # autonomy_level
    /\ autonomy_level' = level
    /\ decision_history' = <<>>
    /\ ret' = <<>>
    /\ last_call' = [stage |-> "none", raised |-> FALSE]
    /\ calls' = 0
    /\ UNCHANGED <<answers, invoked, optimizerVars, now, recoveryVars, appVars, gateVars, saveVars>>

\* One analyze_* call on a new engine, noted with its arguments and the
\* level of the engine that answered.
LevelAnalyze(stage, arguments, o) ==
    /\ calls = 0
    /\ Len(answers) < MaxCalls
    /\ AnalyzeCall(stage, o)
    /\ answers' = Append(answers, [stage |-> stage, sample |-> arguments,
                                   result |-> ret'[1], at |-> now,
                                   logged |-> Len(decision_history),
                                   level |-> autonomy_level])

\* The caller passes the engine the arguments it passed the first engine.
AnalyzeAgain ==
    /\ answers # <<>>
    /\ LET stage == answers[1].stage
           arguments == answers[1].sample
       IN  LevelAnalyze(stage, arguments,
                        IF stage = "user_stories"
                        THEN UserStoriesOutcome(autonomy_level, arguments.stories,
                                                arguments.requirements)
                        ELSE QaOutcome(autonomy_level, arguments))

NextLevels ==
    \/ /\ answers = <<>>
       /\ \E stories \in ClauseLists, requirements \in {RequirementSamples[3]} :
              LevelAnalyze("user_stories",
                           [stories |-> stories, requirements |-> requirements],
                           UserStoriesOutcome(autonomy_level, stories, requirements))
    \/ /\ answers = <<>>
       /\ \E qa_feedback \in QaTexts :
              LevelAnalyze("qa_review", qa_feedback, QaOutcome(autonomy_level, qa_feedback))
    \/ AnalyzeAgain
    \/ \E level \in AutonomyLevel : ConstructNext(level)

\* The same inputs analysed by engines of different levels.
SpecLevels == Init /\ [][NextLevels]_vars

\* ----------------------------------------------------- WorkflowOptimizer
\* Most records performance_history keeps.
HistoryCap == 50

\* workflow_data as analyze_workflow_performance reads it: the four counts,
\* and whether llm_model names a gemma model.
WorkflowData ==
    [duration: {0, 300, 900, 901, 1800, 1801, 3600, 4000}, iterations: 0..6,
     errors: 0..4, autonomous_decisions: 0..5, gemma: BOOLEAN]

\* duration_score, iteration_score and error_score, averaged
base_score(duration, iterations, errors) ==
    LET duration_score == QMax(Q(0, 1), QSub(Q(1, 1), Q(duration, 3600)))
        iteration_score == QMax(Q(0, 1), QSub(Q(1, 1), Q(iterations, 5)))
        error_score == QMax(Q(0, 1), QSub(Q(1, 1), Q(errors, 3)))
    IN  QDivInt(QAdd(QAdd(duration_score, iteration_score), error_score), 3)

\* min(0.2, autonomous_decisions * 0.05)
autonomy_bonus(n_autonomous) ==
    QMin(Pct(20), QMulInt(Pct(5), n_autonomous))

\* The score without its upper clamp.
_calculate_performance_score_unclamped(duration, iterations, errors, n_autonomous) ==
    QAdd(base_score(duration, iterations, errors), autonomy_bonus(n_autonomous))

_calculate_performance_score(duration, iterations, errors, n_autonomous) ==
    QMin(Q(1, 1), QAdd(base_score(duration, iterations, errors),
                       autonomy_bonus(n_autonomous)))

\* The suggestions of every rule whose condition holds, in rule order.
RuleSuggestions(workflow_data) ==
    (IF workflow_data.iterations > 3
     THEN <<"Consider providing more detailed initial requirements to reduce iterations",
            "Use requirement templates for common project types">>
     ELSE <<>>)
    \o (IF workflow_data.errors > 2
        THEN <<"Enable error recovery features to handle common issues automatically",
               "Check your GROQ API key and network connection">>
        ELSE <<>>)
    \o (IF workflow_data.duration > 1800
        THEN <<"Consider enabling higher autonomy levels to speed up routine decisions",
               "Use more powerful AI models for complex analysis">>
        ELSE <<>>)
    \o (IF workflow_data.autonomous_decisions = 0 /\ workflow_data.iterations > 1
        THEN <<"Try semi-autonomous mode to auto-approve high-quality outputs">>
        ELSE <<>>)
    \o (IF workflow_data.gemma /\ workflow_data.duration > 900
        THEN <<"Consider upgrading to Llama 3.1 70B for better performance on complex tasks">>
        ELSE <<>>)

\* suggestions[:4]
_generate_optimization_suggestions(workflow_data) ==
    LET suggestions == RuleSuggestions(workflow_data)
    IN  SubSeq(suggestions, 1, IF Len(suggestions) < 4 THEN Len(suggestions) ELSE 4)

RECURSIVE SumBetween(_, _, _)
\* The sum of the scores of history[first..last], halves added up.
SumBetween(history, first, last) ==
    IF first > last THEN Q(0, 1)
    ELSE IF first = last THEN history[first].score
    ELSE LET middle == (first + last) \div 2
         IN  QAdd(SumBetween(history, first, middle), SumBetween(history, middle + 1, last))

\* sum(h["score"] for h in history)
SumScores(history) == SumBetween(history, 1, Len(history))

\* history[-count:]
LastRecords(history, count) ==
    SubSeq(history, Len(history) - count + 1, Len(history))

_calculate_trend(history) ==
    IF Len(history) < 3 THEN "insufficient_data"
    ELSE LET recent_count == IF Len(history) < 5 THEN Len(history) ELSE 5
             avg_recent == QDivInt(SumScores(LastRecords(history, recent_count)), recent_count)
             older == SubSeq(history, 1, Len(history) - recent_count)
             avg_older == QDivInt(SumScores(older), Len(older))
         IN  IF Len(history) > recent_count
             THEN IF QLt(QAdd(avg_older, Pct(5)), avg_recent) THEN "improving"
                  ELSE IF QLt(avg_recent, QSub(avg_older, Pct(5))) THEN "declining"
                  ELSE "stable"
             ELSE "insufficient_data"

_get_efficiency_rating(score) ==
    IF QGe(score, Pct(90)) THEN "Excellent"
    ELSE IF QGe(score, Pct(75)) THEN "Good"
    ELSE IF QGe(score, Pct(60)) THEN "Fair"
    ELSE IF QGe(score, Pct(40)) THEN "Poor"
    ELSE "Needs Improvement"

\* A cap that would drop the newest record instead of the oldest.
keep_first(history) ==
    IF Len(history) > HistoryCap THEN SubSeq(history, 1, HistoryCap) ELSE history

\* if len(self.performance_history) > 50: self.performance_history = self.performance_history[-50:]
keep_last(history) ==
    IF Len(history) > HistoryCap THEN LastRecords(history, HistoryCap) ELSE history

performance_record(workflow_data) ==
    [timestamp |-> now,
     score |-> _calculate_performance_score(workflow_data.duration, workflow_data.iterations,
                                            workflow_data.errors,
                                            workflow_data.autonomous_decisions),
     data |-> workflow_data,
     suggestions_count |-> Len(_generate_optimization_suggestions(workflow_data))]

\* The clock moves on between two calls.
analyze_workflow_performance(workflow_data) ==
    LET record == performance_record(workflow_data)
        history == keep_last(Append(performance_history, record))
    IN  /\ performance_history' = history
        /\ analysis' = <<[performance_score |-> record.score,
                          suggestions |-> _generate_optimization_suggestions(workflow_data),
                          trend |-> _calculate_trend(history),
                          efficiency_rating |-> _get_efficiency_rating(record.score)]>>
        /\ recorded' = Append(recorded, record)
        /\ now' = now + 1
        /\ UNCHANGED <<invoked, engineVars, recoveryVars, appVars, gateVars, saveVars>>

NextPerformance ==
    /\ performance_history = <<>>
    /\ \E workflow_data \in WorkflowData : analyze_workflow_performance(workflow_data)

\* One analysis of any workflow on a new optimizer.
SpecPerformance == InitSession /\ [][NextPerformance]_vars

\* Runs that went well, middling and badly.
MiddlingRun ==
    [duration |-> 1800, iterations |-> 2, errors |-> 1, autonomous_decisions |-> 1,
     gemma |-> FALSE]

TrendWorkflows ==
    {[duration |-> 0, iterations |-> 0, errors |-> 0, autonomous_decisions |-> 0,
      gemma |-> FALSE],
     MiddlingRun,
     [duration |-> 4000, iterations |-> 6, errors |-> 4, autonomous_decisions |-> 0,
      gemma |-> TRUE]}

\* The history after `count` analyses of the middling run, one per tick.
PastRecords(count) ==
    [i \in 1..count |->
        [timestamp |-> i - 1,
         score |-> _calculate_performance_score(MiddlingRun.duration, MiddlingRun.iterations,
                                                MiddlingRun.errors,
                                                MiddlingRun.autonomous_decisions),
         data |-> MiddlingRun,
         suggestions_count |-> Len(_generate_optimization_suggestions(MiddlingRun))]]

\* A new optimizer, or one that has analysed all but two of the runs its
\* history can keep.
InitHistory ==
    /\ autonomy_level = "semi_auto"
    /\ InitEngine
    /\ InitRecovery
    /\ InitApp
    /\ \E count \in {0, HistoryCap - 2} :
           /\ performance_history = PastRecords(count)
           /\ recorded = PastRecords(count)
           /\ invoked = <<>>
           /\ now = count
           /\ analysis = IF count = 0 THEN <<>>
                         ELSE <<[performance_score |-> PastRecords(count)[count].score,
                                 suggestions |-> <<>>,
                                 trend |-> _calculate_trend(PastRecords(count)),
                                 efficiency_rating |->
                                     _get_efficiency_rating(PastRecords(count)[count].score)]>>

NextHistory ==
    \E workflow_data \in TrendWorkflows :
        /\ \/ Len(recorded) < MaxRuns
           \/ Len(recorded) >= HistoryCap - 2 /\ Len(recorded) < HistoryCap - 2 + MaxRuns
        /\ analyze_workflow_performance(workflow_data)

\* Analysis after analysis on one optimizer.
SpecHistory == InitHistory /\ [][NextHistory]_vars

\* ------------------------------------------------------------ properties
Returned == ret # <<>>

InUnitInterval(q) == QLe(Pct(0), q) /\ QLe(q, Pct(100))

SubScores(metrics) ==
    <<metrics.completeness_score, metrics.consistency_score,
      metrics.security_score, metrics.best_practices_score>>

\* C1: an engine at the manual level never returns "Approve" from an
\* analyze_* operation, whatever the artifact scores.
C1_ManualNeverApproves ==
    (autonomy_level = "manual" /\ Returned) => ret[1].decision # "Approve"

\* C2: the four sub-scores and the overall score of every returned
\* QualityMetrics lie in [0,1].
C2_ScoresInUnitInterval ==
    Returned =>
        /\ \A i \in 1..4 : InUnitInterval(SubScores(ret[1].metrics)[i])
        /\ InUnitInterval(ret[1].metrics.overall_score)

\* C3: every analyze_* call, the failing ones included, appends one record
\* to decision_history, so the history is as long as the calls made.
C3_EveryCallLogged == Len(decision_history) = calls

\* C4 as stated: when scoring raises, the call returns "Denied", all four
\* sub-scores 0.5 and a feedback naming the failure.
C4_AllSubScoresNeutral ==
    (Returned /\ last_call.raised) =>
        /\ ret[1].decision = "Denied"
        /\ \A i \in 1..4 : SubScores(ret[1].metrics)[i] = Pct(50)

\* The sub-scores a stage does not assess.
NotAssessed(stage) ==
    CASE stage \in {"user_stories", "test_cases"} -> {3}
      [] stage = "qa_review" -> {2, 3}
      [] OTHER -> {}

\* C4: when scoring raises, the call returns "Denied", a feedback naming the
\* failure, the overall score 0.5 and every sub-score 0.5, except that the
\* sub-scores the stage does not assess (security for user stories and test
\* cases, consistency and security for QA results) are 1.0.
C4_NeutralOnFailure ==
    (Returned /\ last_call.raised) =>
        /\ ret[1].decision = "Denied"
        /\ ret[1].metrics.overall_score = Pct(50)
        /\ \A i \in 1..4 :
               SubScores(ret[1].metrics)[i] =
                   IF i \in NotAssessed(last_call.stage) THEN Pct(100) ELSE Pct(50)
        /\ ret[1].feedback \in {<<"Analysis failed">>, <<"Security analysis failed">>,
                                <<"Test analysis failed">>, <<"QA analysis failed">>}

C4_Witness ==
    /\ Returned
    /\ last_call.raised
    /\ last_call.stage = "qa_review"
    /\ ret[1].metrics.consistency_score = Pct(100)

\* C5: at the semi_auto, full_auto and expert_auto levels the returned decision
\* is "Approve" exactly when the returned overall score is at least 0.85,
\* 0.75 and 0.70 respectively, and "Denied" otherwise.
C5_ApproveIffThresholdMet ==
    (Returned /\ autonomy_level # "manual") =>
        LET threshold == CASE autonomy_level = "semi_auto" -> Pct(85)
                           [] autonomy_level = "full_auto" -> Pct(75)
                           [] autonomy_level = "expert_auto" -> Pct(70)
        IN  /\ ret[1].decision \in {"Approve", "Denied"}
            /\ ret[1].decision = "Approve" <=> QLe(threshold, ret[1].metrics.overall_score)

C5_Witness ==
    /\ Returned
    /\ autonomy_level = "full_auto"
    /\ ret[1].decision = "Approve"
    /\ ret[1].metrics.overall_score = Pct(75)

\* The calls of the trace made with the dict ref, up to the i-th.
CallsOn(ref, i) == {j \in 1..i : trace[j].ref = ref}

\* Whether the dict ref came to its first call with no retries counted.
StartsAtZero(ref) ==
    \E j \in DOMAIN trace :
        /\ CallsOn(ref, j) = {j}
        /\ Get(trace[j].given, "retry_count", 0) = 0

\* C6: api_error failures handled with one error_details dict whose
\* retry_count starts at 0 are answered "retry" for the first three calls,
\* with waits of 1, 2 and 4 seconds, none above 10, and "switch_model" for
\* the fourth.
C6_ThreeRetriesThenSwitch ==
    \A i \in DOMAIN trace :
        (trace[i].type = "api_error" /\ StartsAtZero(trace[i].ref)) =>
            LET k == Cardinality(CallsOn(trace[i].ref, i))
            IN  IF k <= 3
                THEN /\ trace[i].recovered
                     /\ trace[i].action.action = "retry"
                     /\ trace[i].action.wait_time = <<1, 2, 4>>[k]
                     /\ trace[i].action.wait_time <= 10
                ELSE trace[i].action.action = "switch_model"

C6_Witness ==
    \E i \in DOMAIN trace :
        /\ StartsAtZero(trace[i].ref)
        /\ Cardinality(CallsOn(trace[i].ref, i)) = 4
        /\ trace[i].action.action = "switch_model"

\* C7: once the retry budget of an api_error is spent, a call made when every
\* fallback model is the current one or has already run out of retries is
\* answered recovered = false with "manual_intervention", so that switching
\* ends.
C7_ManualInterventionWhenNoFallbackRemains ==
    \A i \in DOMAIN trace :
        LET current_model == Get(trace[i].state, "llm_model", "gemma2-9b-it")
            remaining == {fallback_models[m] : m \in DOMAIN fallback_models}
                             \ (trace[i].tried \cup {current_model})
        IN  (/\ trace[i].type = "api_error"
             /\ trace[i].action.action # "retry"
             /\ remaining = {}) =>
                /\ ~trace[i].recovered
                /\ trace[i].action.action = "manual_intervention"

\* C8: every handle_error call appends one record with the kind, the details,
\* the time of the call and the stage read from the state's active_node, so
\* the summary's total_errors is the number of calls.
C8_OneRecordPerCall ==
    /\ Len(error_history) = Len(trace)
    /\ get_error_summary(error_history).total_errors = Len(trace)
    /\ \A i \in DOMAIN trace :
           /\ error_history[i].type = trace[i].type
           /\ error_history[i].details = trace[i].ref
           /\ error_history[i].timestamp = trace[i].at
           /\ error_history[i].state_stage =
                  IF "active_node" \in DOMAIN trace[i].state
                  THEN trace[i].state.active_node ELSE "unknown"

C8_Witness ==
    /\ Len(trace) >= 2
    /\ trace[1].type = "api_error"
    /\ trace[2].type = "unknown_error"
    /\ error_history[2].state_stage = "QA Testing"
    /\ error_history[2].timestamp > error_history[1].timestamp

\* C9: the summary's recovery rate is the number of handled errors that were
\* answered recovered = true over the number of errors recorded.
C9_RecoveryRate ==
    trace # <<>> =>
        get_error_summary(error_history).recovery_rate =
            Q(Cardinality({i \in DOMAIN trace : trace[i].recovered}), Len(trace))

\* C10: every failure of a graph stream, at the start of the workflow or on
\* resuming after a review, leaves a record in the session's error_history.
C10_StreamFailuresRecorded == Len(error_history) >= stream_failures

\* C11: every decision of a run, the engine's and the reviewers', is an entry
\* of the run's decision log, in the order made.
C11_EveryDecisionLogged ==
    /\ Len(autonomous_decisions) = Len(decisions_made)
    /\ \A i \in DOMAIN decisions_made :
           /\ autonomous_decisions[i].stage = decisions_made[i].stage
           /\ autonomous_decisions[i].decision = decisions_made[i].decision

\* C12: a step in which a stream fails leaves qa_review_status as it was,
\* unless a reviewer submitted a QA decision in that step, and then it is
\* that decision.
C12_FailureNeverApproves ==
    [][stream_failures' > stream_failures =>
           \/ qa_review_status' = qa_review_status
           \/ /\ Len(decisions_made') > Len(decisions_made)
              /\ qa_review_status' = decisions_made'[Len(decisions_made')].decision]_vars

C14_SaveHoldsSuspensionPoint ==
    saved # <<>> =>
        Get(saved[1], "active_node", Get(saved[1].state, "active_node", "absent")) = saved_at

LastWorkflow == performance_history[Len(performance_history)].data

\* C16: for non-negative duration, iterations, errors and autonomous
\* decisions the performance_score returned lies in [0,1], and it exceeds the
\* average of the three sub-scores by no more than 0.05 per autonomous
\* decision and by no more than 0.2.
C16_ScoreInUnitInterval ==
    analysis # <<>> =>
        LET score == analysis[1].performance_score
            base == base_score(LastWorkflow.duration, LastWorkflow.iterations,
                               LastWorkflow.errors)
        IN  /\ QLe(Q(0, 1), score)
            /\ QLe(score, Q(1, 1))
            /\ QLe(base, score)
            /\ QLe(QSub(score, base), Pct(20))
            /\ QLe(QSub(score, base), QMulInt(Pct(5), LastWorkflow.autonomous_decisions))

C16_Witness ==
    /\ analysis # <<>>
    /\ LastWorkflow.autonomous_decisions = 5
    /\ QLt(analysis[1].performance_score, Q(1, 1))
    /\ QSub(analysis[1].performance_score,
            base_score(LastWorkflow.duration, LastWorkflow.iterations, LastWorkflow.errors))
         = Pct(20)

\* C17: after n analyses performance_history holds the min(n, 50) most recent
\* records in call order, so that from the 51st record on the oldest record
\* is the one that leaves.
C17_HistoryKeepsMostRecent ==
    LET n == Len(recorded)
        kept == IF n < HistoryCap THEN n ELSE HistoryCap
    IN  performance_history = SubSeq(recorded, n - kept + 1, n)

C17_Witness ==
    /\ Len(recorded) > HistoryCap + 1
    /\ Len(performance_history) = HistoryCap
    /\ performance_history[1] = recorded[Len(recorded) - HistoryCap + 1]
    /\ performance_history[1] # recorded[1]
    /\ performance_history[HistoryCap].data # performance_history[HistoryCap - 1].data

\* C18: the trend returned is "insufficient_data" exactly when the history,
\* the current record included, holds fewer than 3 records; with 3 or more it
\* is "improving", "declining" or "stable".
C18_TrendFromThreeRecords ==
    analysis # <<>> =>
        /\ analysis[1].trend = "insufficient_data" <=> Len(performance_history) < 3
        /\ Len(performance_history) >= 3 =>
               analysis[1].trend \in {"improving", "declining", "stable"}

Suggests(text) == \E i \in DOMAIN analysis[1].suggestions : analysis[1].suggestions[i] = text

\* C19: every suggestion rule whose condition holds shows in the suggestions
\* returned: iterations > 3, errors > 2, duration > 1800, and no autonomous
\* decision with more than one iteration, in every combination.
C19_EveryRuleReflected ==
    analysis # <<>> =>
        /\ LastWorkflow.iterations > 3 =>
               Suggests("Consider providing more detailed initial requirements to reduce iterations")
        /\ LastWorkflow.errors > 2 =>
               Suggests("Enable error recovery features to handle common issues automatically")
        /\ LastWorkflow.duration > 1800 =>
               Suggests("Consider enabling higher autonomy levels to speed up routine decisions")
        /\ (LastWorkflow.autonomous_decisions = 0 /\ LastWorkflow.iterations > 1) =>
               Suggests("Try semi-autonomous mode to auto-approve high-quality outputs")

\* C20: for an empty story list and any requirements, analyze_user_stories
\* yields completeness 0 and the decision "Denied" at every autonomy level.
C20_EmptyStoriesDenied ==
    \A i \in DOMAIN answers :
        (answers[i].stage = "user_stories" /\ StorySamples[answers[i].sample].stories = <<>>)
            => /\ answers[i].result.metrics.completeness_score = Pct(0)
               /\ answers[i].result.decision = "Denied"

C20_Witness ==
    /\ autonomy_level = "expert_auto"
    /\ \E i \in DOMAIN answers :
           /\ answers[i].stage = "user_stories"
           /\ StorySamples[answers[i].sample].stories = <<>>
           /\ StorySamples[answers[i].sample].requirements = [kind |-> "str", kw |-> {"k1", "k2"}]
           /\ answers[i].result.metrics.completeness_score = Pct(0)
           /\ answers[i].result.decision = "Denied"

\* C21: for a requirements text and four distinct stories that each hold
\* the role, goal and benefit clauses, analyze_user_stories yields a
\* completeness of at least 0.9, and at semi_auto the decision "Approve".
C21_WellFormedStoriesApproved ==
    \A i \in DOMAIN answers :
        /\ QGe(answers[i].result.metrics.completeness_score, Pct(90))
        /\ autonomy_level = "semi_auto" => answers[i].result.decision = "Approve"

\* C22: for code of any language that holds a hardcoded secret assignment such
\* as password = "...", analyze_code returns a security sub-score strictly
\* below 1.0 and a feedback that reports the security issue.
C22_HardcodedSecretReported ==
    \A i \in DOMAIN answers :
        (answers[i].sample.code.password \/ answers[i].sample.code.secret)
            => /\ QLt(answers[i].result.metrics.security_score, Pct(100))
               /\ \E k \in DOMAIN answers[i].result.feedback :
                      answers[i].result.feedback[k] = "Security vulnerabilities detected"

\* C23: handle_error never raises: for every error kind and every content of
\* error_details and state it returns a recovered flag and an action record
\* that carries an "action" field.
C23_HandleErrorNeverRaises ==
    \A i \in DOMAIN trace :
        /\ ~Get(trace[i], "raised", FALSE)
        /\ trace[i].recovered \in BOOLEAN
        /\ "action" \in DOMAIN trace[i].action

\* The stories of a list that hold exactly `count` of the three clauses.
WithClauses(stories, count) ==
    {k \in DOMAIN stories :
        Cardinality({c \in {"as_a", "i_want", "so_that"} : stories[k][c]}) = count}

\* The stories of a list that hold the role and the goal but not the benefit.
RoleAndGoal(stories) ==
    {k \in DOMAIN stories : stories[k].as_a /\ stories[k].i_want /\ ~stories[k].so_that}

\* C24 as stated: completeness is the average of a credit of 1.0 for the three
\* clauses, 0.7 for role and goal only, 0.3 for exactly one clause, and 0 for
\* role with benefit, goal with benefit, or no clause.
C24_CreditZeroOtherwise ==
    \A i \in DOMAIN answers :
        LET stories == answers[i].sample.stories
        IN  answers[i].result.metrics.completeness_score =
                Q(100 * Cardinality(WithClauses(stories, 3))
                    + 70 * Cardinality(RoleAndGoal(stories))
                    + 30 * Cardinality(WithClauses(stories, 1)),
                  100 * Len(stories))

\* C24: completeness is the average of a credit of 1.0 for the three clauses,
\* 0.7 for role and goal without benefit, 0.3 for any other story that holds
\* at least one clause (role with benefit and goal with benefit included),
\* and 0 for a story with no clause.
C24_CreditForAnyClause ==
    \A i \in DOMAIN answers :
        LET stories == answers[i].sample.stories
        IN  answers[i].result.metrics.completeness_score =
                Q(100 * Cardinality(WithClauses(stories, 3))
                    + 70 * Cardinality(RoleAndGoal(stories))
                    + 30 * Cardinality(WithClauses(stories, 1)
                                       \cup (WithClauses(stories, 2) \ RoleAndGoal(stories))),
                  100 * Len(stories))

C24_Witness ==
    \E i \in DOMAIN answers :
        /\ Len(answers[i].sample.stories) = 2
        /\ answers[i].sample.stories[1].as_a /\ answers[i].sample.stories[1].so_that
        /\ ~answers[i].sample.stories[1].i_want
        /\ WithClauses(answers[i].sample.stories, 3) = {2}
        /\ answers[i].result.metrics.completeness_score = Pct(65)

\* The sub-scores that apply to a stage: all four but those the stage reports
\* as 1.0 without assessing them.
AppliesTo(stage) ==
    CASE stage \in {"user_stories", "test_cases"} -> {1, 2, 4}
      [] stage = "qa_review" -> {1, 4}
      [] stage = "security_review" -> {3, 4}
      [] OTHER -> {1, 2, 3, 4}

\* C25: the overall score every analyze_* call returns is the arithmetic mean
\* of exactly the returned sub-scores that apply to the stage.
C25_OverallIsMeanOfSubScores ==
    (Returned /\ ~last_call.raised) =>
        LET applicable == AppliesTo(last_call.stage)
            part(i) == IF i \in applicable THEN SubScores(ret[1].metrics)[i] ELSE Q(0, 1)
        IN  ret[1].metrics.overall_score =
                QDivInt(QAdd(QAdd(part(1), part(2)), QAdd(part(3), part(4))),
                        Cardinality(applicable))

\* C26: error_history is append-only: a step leaves every record already in
\* the history in place, with its type, stage, timestamp and the content of
\* its details (retry_count included) as they were.
C26_RecordsNeverChange ==
    [][\A i \in DOMAIN error_history :
           /\ i \in DOMAIN error_history'
           /\ error_history'[i] = error_history[i]
           /\ heap'[error_history[i].details] = heap[error_history[i].details]]_vars

\* The invocations up to the first one that ends the attempts: a response,
\* an invalid request, or the last attempt allowed.
EndingInvocation(behaviour) ==
    CHOOSE k \in 1..3 :
        /\ k = 3 \/ behaviour[k] \in {"response", "invalid request"}
        /\ \A j \in 1..(k - 1) : behaviour[j] \notin {"response", "invalid request"}

Permissive(level) ==
    CASE level = "manual"      -> 0
      [] level = "semi_auto"   -> 1
      [] level = "full_auto"   -> 2
      [] level = "expert_auto" -> 3

\* C28: the thresholds are strictly ordered manual > semi_auto > full_auto >
\* expert_auto, in the engine and in Config alike; the metrics of an input
\* are the same at every level; and an input approved at one level is
\* approved at every more permissive level.
C28_ApprovalMonotoneInLevel ==
    /\ \A l, m \in AutonomyLevel :
           Permissive(l) < Permissive(m)
               => QLt(quality_thresholds(m), quality_thresholds(l))
    /\ \A l \in AutonomyLevel : quality_thresholds(l) = QUALITY_THRESHOLDS(l)
    /\ \A i, j \in DOMAIN answers :
           (answers[i].stage = answers[j].stage /\ answers[i].sample = answers[j].sample)
               => /\ answers[i].result.metrics = answers[j].result.metrics
                  /\ (/\ answers[i].result.decision = "Approve"
                      /\ Permissive(answers[i].level) <= Permissive(answers[j].level))
                         => answers[j].result.decision = "Approve"

C28_Witness ==
    \E i, j \in DOMAIN answers :
        /\ answers[i].stage = answers[j].stage
        /\ answers[i].sample = answers[j].sample
        /\ answers[i].level = "full_auto"
        /\ answers[j].level = "expert_auto"
        /\ answers[i].result.decision = "Denied"
        /\ answers[j].result.decision = "Approve"

\* The calls of handle_error that returned.
ReturnedCalls == {i \in DOMAIN trace : "recovered" \in DOMAIN trace[i]}

\* C29: every call of handle_error that returns reports recovered = true,
\* for every error kind, retry_count and current llm_model; no call of the
\* api_error kind answers manual_intervention.
C29_NeverReportsUnrecovered ==
    \A i \in ReturnedCalls :
        /\ trace[i].recovered = TRUE
        /\ trace[i].type = "api_error" => trace[i].action.action # "manual_intervention"

C29_Witness ==
    \E i \in ReturnedCalls :
        /\ trace[i].type = "api_error"
        /\ Get(trace[i].given, "retry_count", 0) = 3
        /\ Get(trace[i].state, "llm_model", "") = "gemma2-9b-it"
        /\ trace[i].recovered = TRUE
        /\ trace[i].action = [action |-> "switch_model",
                              fallback_model |-> "llama-3.1-70b-versatile"]

\* The entry a step appends to state['autonomous_decisions'].
AppendedDecision == autonomous_decisions'[Len(autonomous_decisions')]

====
